---------------------------- MODULE Spec2Model ----------------------------
(***************************************************************************)
(* Model of the Dofus-DB equipment extractor:                              *)
(*   - the recipe resolver (extract_functions_dofusdb.py),                 *)
(*   - the recipe aggregation engine (set_price.py),                       *)
(*   - the job/category orchestration and the entry point (main.py).       *)
(* Python dictionaries are functions, lists are sequences, a raised        *)
(* exception is a record [exc |-> <kind>] that every caller passes on.     *)
(***************************************************************************)
EXTENDS Integers, Sequences, FiniteSets, TLC

(***************************************************************************)
(* Bounds of the model.                                                    *)
(***************************************************************************)
\* largest quantity of an ingredient in a recipe
MaxQty == 2
\* largest number of ingredients of a top-level item's recipe
MaxIngr == 2
\* largest number of faults (failing responses, omitted ingredient records) of
\* a remote catalog
MaxFaults == 2
\* largest number of faults of the remote catalog of an extraction run
MaxRunFaults == 1

\* depth of nested recipe_management calls at which the interpreter raises
\* RecursionError (the recursion limit of the interpreter, scaled down)
MaxDepth == 4

\* longest effects list of an item given to effects_management on its own
MaxEffects == 3

Quantities == 1..MaxQty

(***************************************************************************)
(* The remote catalog.  Identifiers are opaque; the catalog has one raw    *)
(* material, two craftable intermediate items (the hilt may also be listed *)
(* as an equipment item) and two craftable top-level equipment items.      *)
(***************************************************************************)
ItemIds == {"i_wood", "i_rivet", "i_hilt", "i_sword", "i_axe"}

CraftIds == {"i_rivet", "i_hilt", "i_sword", "i_axe"}

JobNames == {"Smith", "Carver"}

\* item record of the remote catalog, as it appears in a recipe's "ingredients"
\* list (fields read by recipe_management) and in an /items page
ItemRecord(id) ==
    CASE id = "i_wood"  -> [id |-> id, name |-> "Wood",  hasRecipe |-> FALSE, secretRecipe |-> FALSE, img |-> "wood.png",  level |-> 1]
      [] id = "i_rivet" -> [id |-> id, name |-> "rivet", hasRecipe |-> TRUE,  secretRecipe |-> FALSE, img |-> "rivet.png", level |-> 3]
      [] id = "i_hilt"  -> [id |-> id, name |-> "Hilt",  hasRecipe |-> TRUE,  secretRecipe |-> FALSE, img |-> "hilt.png",  level |-> 2]
      [] id = "i_sword" -> [id |-> id, name |-> "Sword", hasRecipe |-> TRUE,  secretRecipe |-> FALSE, img |-> "sword.png", level |-> 3]
      [] id = "i_axe"   -> [id |-> id, name |-> "Axe",   hasRecipe |-> TRUE,  secretRecipe |-> FALSE, img |-> "axe.png",   level |-> 3]

\* Python's None in the "recipe" field of an ingredient without recipe
None == [job |-> "None", ingredients |-> <<>>]

\* an exception on its way up the call stack / a normal return
Raise(kind) == [exc |-> kind, value |-> None]

Return(v) == [exc |-> "none", value |-> v]

\* one line of a recipe: an ingredient identifier and its quantity
Lines(ids) == [id : ids, quantity : Quantities]

SeqsUpTo(S, n) == UNION {[1..k -> S] : k \in 1..n}

\* response body of GET /recipes/{id}: ingredientIds, quantities and the
\* ingredients list, which holds the records of the identifiers in `listed`
RecipeData(job, lines, listed) ==
    [status |-> 200,
     job |-> job,
     ingredientIds |-> [k \in 1..Len(lines) |-> lines[k].id],
     quantities |-> [k \in 1..Len(lines) |-> lines[k].quantity],
     ingredients |-> {ItemRecord(id) : id \in listed}]

IdsOf(lines) == {lines[k].id : k \in 1..Len(lines)}

\* the recipes the catalog is drawn from: a rivet is made of one wood, a hilt
\* of a rivet or of two lines of wood, an axe of wood or of hilts, a sword of
\* up to MaxIngr lines of wood or hilts in any quantity
RivetLines == <<[id |-> "i_wood", quantity |-> 1]>>

HiltRecipes == {<<[id |-> "i_rivet", quantity |-> 1]>>,
                <<[id |-> "i_wood", quantity |-> 1],
                  [id |-> "i_wood", quantity |-> MaxQty]>>}

AxeRecipes == {<<[id |-> "i_wood", quantity |-> 1]>>,
               <<[id |-> "i_hilt", quantity |-> MaxQty]>>}

SwordRecipes == SeqsUpTo(Lines({"i_wood", "i_hilt"}), MaxIngr)

\* a well-formed catalog: every recipe lists the records of its ingredients
Catalog(hilt, sword, axe) ==
    [id \in CraftIds |->
        CASE id = "i_rivet" -> RecipeData("Smith", RivetLines, IdsOf(RivetLines))
          [] id = "i_hilt"  -> RecipeData("Smith", hilt, IdsOf(hilt))
          [] id = "i_sword" -> RecipeData("Smith", sword, IdsOf(sword))
          [] id = "i_axe"   -> RecipeData("Carver", axe, IdsOf(axe))]

(***************************************************************************)
(* Recipe resolver, as a function of the catalog.                          *)
(***************************************************************************)
\* get_recipe_data: the body on status 200, APIError otherwise
get_recipe_data(api, item_id) ==
    IF api[item_id].status = 200 THEN Return(api[item_id]) ELSE Raise("APIError")

\* a lookup that answers a record without recipe for an identifier it misses
get_ingredient_with_id_lenient(ingredient_id, ingredients) ==
    IF \E r \in ingredients : r.id = ingredient_id
    THEN Return(CHOOSE r \in ingredients : r.id = ingredient_id)
    ELSE Return([ItemRecord(ingredient_id) EXCEPT !.hasRecipe = FALSE])

\* get_ingredient_with_id: the record with that id, or IngredientNotFound
get_ingredient_with_id(ingredient_id, ingredients) ==
    IF \E r \in ingredients : r.id = ingredient_id
    THEN Return(CHOOSE r \in ingredients : r.id = ingredient_id)
    ELSE Raise("IngredientNotFound")

\* the dictionary appended to res['ingredients'] (lines 267-273)
IngredientEntry(data, quantity, sub) ==
    [name |-> data.name,
     quantity |-> quantity,
     hasRecipe |-> data.hasRecipe,
     secretRecipe |-> data.secretRecipe,
     recipe |-> sub]

RECURSIVE recipe_management(_, _)
RECURSIVE recipe_loop(_, _, _, _)

\* the for loop of recipe_management from index i on, res holding the
\* ingredients appended so far
recipe_loop(api, recipe_data, i, res) ==
    IF i > Len(recipe_data.ingredientIds) THEN Return(res)
    ELSE LET ingredient_id == recipe_data.ingredientIds[i]
             found == get_ingredient_with_id(ingredient_id, recipe_data.ingredients)
         IN  IF found.exc # "none" THEN Raise(found.exc)
             ELSE LET sub == IF found.value.hasRecipe
                             THEN recipe_management(api, ingredient_id)
                             ELSE Return(None)
                  IN  IF sub.exc # "none" THEN Raise(sub.exc)
                      ELSE recipe_loop(api, recipe_data, i + 1,
                               [res EXCEPT !.ingredients =
                                   Append(@, IngredientEntry(found.value,
                                                 recipe_data.quantities[i], sub.value))])

recipe_management(api, item_id) ==
    LET fetched == get_recipe_data(api, item_id)
    IN  IF fetched.exc # "none" THEN Raise(fetched.exc)
        ELSE recipe_loop(api, fetched.value, 1,
                 [job |-> fetched.value.job, ingredients |-> <<>>])

(***************************************************************************)
(* The forest handed to the aggregation engine: the results list built by  *)
(* job_management, one record per job with its item_data records.          *)
(***************************************************************************)
\* item_data of item_management (line 289) for a catalog whose recipes resolve
ItemData(api, id) ==
    [name |-> ItemRecord(id).name,
     level |-> ItemRecord(id).level,
     img |-> ItemRecord(id).img,
     recipes |-> recipe_management(api, id).value]

\* the results list: the sword is a Smith item, the axe a Carver item, and the
\* hilt is an equipment item of the jobs in hiltJobs
ResultOf(api, hiltJobs) ==
    << [name |-> "Smith",
        items |-> <<ItemData(api, "i_sword")>> \o
                  (IF "Smith" \in hiltJobs THEN <<ItemData(api, "i_hilt")>> ELSE <<>>)],
       [name |-> "Carver",
        items |-> <<ItemData(api, "i_axe")>> \o
                  (IF "Carver" \in hiltJobs THEN <<ItemData(api, "i_hilt")>> ELSE <<>>)] >>

ImgOfName(name) == ItemRecord(CHOOSE id \in ItemIds : ItemRecord(id).name = name).img

RECURSIVE WithImg(_)
\* the same recipe tree with the "img" key set on every ingredient
WithImg(recipe) ==
    [job |-> recipe.job,
     ingredients |->
        [k \in 1..Len(recipe.ingredients) |->
            LET g == recipe.ingredients[k]
            IN  [name |-> g.name, quantity |-> g.quantity, hasRecipe |-> g.hasRecipe,
                 secretRecipe |-> g.secretRecipe, img |-> ImgOfName(g.name),
                 recipe |-> IF g.hasRecipe THEN WithImg(g.recipe) ELSE None]]]

ForestWithImg(result) ==
    [j \in 1..Len(result) |->
        [result[j] EXCEPT !.items =
            [k \in 1..Len(result[j].items) |->
                [result[j].items[k] EXCEPT !.recipes = WithImg(@)]]]]

(***************************************************************************)
(* Effects.  A description of the /effects endpoint is a sequence of       *)
(* tokens: a placeholder "#1".."#3", a brace group, a sprite tag with the  *)
(* space that follows it, a lone closing brace, a space, or a word.        *)
(***************************************************************************)
EffectIds == {"e_force", "e_fire", "e_hunt", "e_title", "e_down"}

HashTokens == {"#1", "#2", "#3"}

BraceGroups == {"{~1~2 a }", "{~ps}{~zs}"}

SpriteTokens == {"<sprite name=feu> "}

\* response of GET /effects/{id}: its status and description.fr
EffectsApi ==
    [e \in EffectIds |->
        CASE e = "e_force" -> [status |-> 200, description |-> <<"#1", "{~1~2 a }", "#2", " ", "Force">>]
          [] e = "e_fire"  -> [status |-> 200, description |-> <<"#1", "{~1~2 a }", "#2", " ", "<sprite name=feu> ", "Dommage", " ", "Feu">>]
          [] e = "e_hunt"  -> [status |-> 200, description |-> <<"Arme de chasse">>]
          [] e = "e_title" -> [status |-> 200, description |-> <<"Titre", " ", "#3">>]
          [] e = "e_down"  -> [status |-> 500, description |-> <<>>]]

\* the allowlist read from data/json/effectsName.json
effects_name == {<<"Force">>, <<"Dommages", " ", "Feu">>, <<"Arme de chasse">>}

\* get_effect_name: the description on status 200, APIError otherwise
get_effect_name(effect_id) ==
    IF EffectsApi[effect_id].status = 200
    THEN Return(EffectsApi[effect_id].description)
    ELSE Raise("APIError")

\* str.strip on tokens: the spaces at both ends go
Strip(tokens) ==
    LET solid == {k \in 1..Len(tokens) : tokens[k] # " "}
    IN  IF solid = {} THEN <<>>
        ELSE SubSeq(tokens, CHOOSE k \in solid : \A l \in solid : k <= l,
                            CHOOSE k \in solid : \A l \in solid : k >= l)

\* clean_effect_name, substitution by substitution
clean_effect_name(baseeffect_name) ==
    LET no_hash == SelectSeq(baseeffect_name, LAMBDA t : t \notin HashTokens)
        no_group == SelectSeq(no_hash, LAMBDA t : t \notin BraceGroups)
        tags == {k \in 1..Len(no_group) : no_group[k] \in SpriteTokens}
        \* the greedy <.*>  takes everything from the first tag to the last
        no_tag == IF tags = {} THEN no_group
                  ELSE SubSeq(no_group, 1, (CHOOSE k \in tags : \A l \in tags : k <= l) - 1)
                       \o SubSeq(no_group, (CHOOSE k \in tags : \A l \in tags : k >= l) + 1,
                                 Len(no_group))
        no_brace == SelectSeq(no_tag, LAMBDA t : t # "}")
        plural == [k \in 1..Len(no_brace) |->
                      IF no_brace[k] = "Dommage" THEN "Dommages" ELSE no_brace[k]]
    IN  Strip(plural)

RECURSIVE effects_loop_keeps_null(_, _, _)
\* a loop that keeps the effects whose two values are 0
effects_loop_keeps_null(effects, i, res) ==
    IF i > Len(effects) THEN Return(res)
    ELSE LET effect == effects[i]
             fetched_name == get_effect_name(effect.effectId)
         IN  IF fetched_name.exc # "none" THEN Raise(fetched_name.exc)
             ELSE LET effect_name == clean_effect_name(fetched_name.value)
                      hunting == effect_name = <<"Arme de chasse">>
                      effect_val1 == IF hunting THEN 1 ELSE effect.from
                      effect_val2 == IF hunting THEN 1 ELSE effect.to
                  IN  IF effect_val1 < 0 \/ effect_name \notin effects_name
                      THEN effects_loop_keeps_null(effects, i + 1, res)
                      ELSE effects_loop_keeps_null(effects, i + 1,
                               Append(res, [name |-> effect_name,
                                            value1 |-> effect_val1,
                                            value2 |-> IF effect_val2 = 0 THEN effect_val1
                                                       ELSE effect_val2]))

RECURSIVE effects_loop(_, _, _)
\* the for loop of effects_management from index i on
effects_loop(effects, i, res) ==
    IF i > Len(effects) THEN Return(res)
    ELSE LET effect == effects[i]
             fetched_name == get_effect_name(effect.effectId)
         IN  IF fetched_name.exc # "none" THEN Raise(fetched_name.exc)
             ELSE LET effect_name == clean_effect_name(fetched_name.value)
                      hunting == effect_name = <<"Arme de chasse">>
                      effect_val1 == IF hunting THEN 1 ELSE effect.from
                      effect_val2 == IF hunting THEN 1 ELSE effect.to
                  IN  IF \/ effect_val1 < 0
                         \/ (effect_val1 = 0 /\ effect_val2 = 0)
                         \/ effect_name \notin effects_name
                      THEN effects_loop(effects, i + 1, res)
                      ELSE effects_loop(effects, i + 1,
                               Append(res, [name |-> effect_name,
                                            value1 |-> effect_val1,
                                            value2 |-> IF effect_val2 = 0 THEN effect_val1
                                                       ELSE effect_val2]))

effects_management(item) == effects_loop(item.effects, 1, <<>>)

\* the cache of get_effect_name once effects_management(item) has run: it
\* gains the effects asked up to the first one whose request fails
NamedAfter(item, named) ==
    LET asked_up_to == IF \E k \in 1..Len(item.effects) :
                              get_effect_name(item.effects[k].effectId).exc # "none"
                       THEN (CHOOSE k \in 1..Len(item.effects) :
                               /\ get_effect_name(item.effects[k].effectId).exc # "none"
                               /\ \A l \in 1..(k - 1) :
                                     get_effect_name(item.effects[l].effectId).exc = "none") - 1
                       ELSE Len(item.effects)
    IN  named \cup {item.effects[k].effectId : k \in 1..asked_up_to}

(***************************************************************************)
(* The resolver run by one thread without interruption, with the caches of *)
(* functools.cache: cache = [memo, fetched, requests].                     *)
(***************************************************************************)
RECURSIVE recipe_management_cached(_, _, _)
RECURSIVE recipe_loop_cached(_, _, _, _, _)

\* the for loop of recipe_management (lines 257-273) from index i on
recipe_loop_cached(api, recipe_data, i, res, cache) ==
    IF i > Len(recipe_data.ingredientIds)
    THEN [exc |-> "none", value |-> res, cache |-> cache]
    ELSE LET ingredient_id == recipe_data.ingredientIds[i]
             found == get_ingredient_with_id(ingredient_id, recipe_data.ingredients)
         IN  IF found.exc # "none"
             THEN [exc |-> found.exc, value |-> None, cache |-> cache]
             ELSE LET sub == IF found.value.hasRecipe
                             THEN recipe_management_cached(api, ingredient_id, cache)
                             ELSE [exc |-> "none", value |-> None, cache |-> cache]
                  IN  IF sub.exc # "none" THEN sub
                      ELSE recipe_loop_cached(api, recipe_data, i + 1,
                               [res EXCEPT !.ingredients =
                                   Append(@, IngredientEntry(found.value,
                                                 recipe_data.quantities[i], sub.value))],
                               sub.cache)

\* recipe_management and get_recipe_data behind their caches: a hit answers
\* without a request, a normal return is stored
recipe_management_cached(api, item_id, cache) ==
    IF item_id \in DOMAIN cache.memo
    THEN [exc |-> "none", value |-> cache.memo[item_id], cache |-> cache]
    ELSE LET hit == item_id \in DOMAIN cache.fetched
             asked == IF hit THEN cache
                      ELSE [cache EXCEPT !.requests[item_id] = @ + 1]
             got == IF hit THEN Return(cache.fetched[item_id])
                    ELSE get_recipe_data(api, item_id)
         IN  IF got.exc # "none"
             THEN [exc |-> got.exc, value |-> None, cache |-> asked]
             ELSE LET done == recipe_loop_cached(api, got.value, 1,
                                  [job |-> got.value.job, ingredients |-> <<>>],
                                  [asked EXCEPT !.fetched = (item_id :> got.value) @@ @])
                  IN  IF done.exc # "none" THEN done
                      ELSE [done EXCEPT !.cache.memo = (item_id :> done.value) @@ @]

(***************************************************************************)
(* Jobs, categories and the pages of the /items endpoint.                  *)
(***************************************************************************)
\* data/json/jobs.json
jobs == << [name |-> "Smith",  category_id |-> <<"c1", "c2">>],
           [name |-> "Carver", category_id |-> <<"c3">>] >>

Categories == {"c1", "c2", "c3"}

\* the step of the pagination loop of category_management
PageStep == 10

\* the answers of prompt_job_selection: "a" or the index of a job
Answers == {"a", "0", "1"}

\* jobs[int(ansj)], Python lists starting at 0
JobOfAnswer(ansj) == IF ansj = "0" THEN 1 ELSE 2

\* get_job_with_name: the index of the job of that name, 0 for None
get_job_with_name(job_name) ==
    IF \E j \in 1..Len(jobs) : jobs[j].name = job_name
    THEN CHOOSE j \in 1..Len(jobs) :
            /\ jobs[j].name = job_name
            /\ \A l \in 1..(j - 1) : jobs[l].name # job_name
    ELSE 0

\* the job whose worker starts the worker of category c
JobOfCategory(c) ==
    CHOOSE j \in 1..Len(jobs) : \E k \in 1..Len(jobs[j].category_id) : jobs[j].category_id[k] = c

\* a raw effect of an item record
Effect(effect_id, from, to) == [effectId |-> effect_id, from |-> from, to |-> to]

\* an item record of an /items page
PageItem(id, flags, effects) ==
    [id |-> id,
     name |-> ItemRecord(id).name,
     level |-> ItemRecord(id).level,
     img |-> ItemRecord(id).img,
     hasRecipe |-> flags.hasRecipe,
     isDestructible |-> flags.isDestructible,
     secretRecipe |-> flags.secretRecipe,
     effects |-> effects]

Flags == [hasRecipe : BOOLEAN, isDestructible : BOOLEAN, secretRecipe : BOOLEAN]

Craftable == [hasRecipe |-> TRUE, isDestructible |-> TRUE, secretRecipe |-> FALSE]

Strength == <<Effect("e_force", 1, MaxQty)>>

\* the effects lists the hilt's record is drawn from: none, recognized,
\* unrecognized, negative, null, hunting weapon, single-valued, unreachable
HiltEffects ==
    {<<>>, Strength,
     <<Effect("e_title", 1, 0)>>,
     <<Effect("e_force", -1, 0)>>,
     <<Effect("e_force", 0, 0)>>,
     <<Effect("e_hunt", 0, 0)>>,
     <<Effect("e_title", 1, 0), Effect("e_fire", 1, 0)>>,
     <<Effect("e_down", 1, 1)>>,
     <<Effect("e_force", 1, MaxQty), Effect("e_down", 1, 1)>>}

\* the hilt's record: any flags with a recognized effect, or craftable
\* flags with any effects list
HiltRecords ==
    {PageItem("i_hilt", f, Strength) : f \in Flags}
        \cup {PageItem("i_hilt", Craftable, e) : e \in HiltEffects}

\* the /items endpoint: per category its total and its pages, page k
\* answering $skip = PageStep * (k - 1).  A page shows the records that
\* matter; the records left out have no recipe and item_management skips them.
ItemsApi(hilt) ==
    [c \in Categories |->
        CASE c = "c1" -> [total |-> PageStep + 1,
                          pages |-> << <<PageItem("i_sword", Craftable, Strength)>>,
                                       <<hilt>> >>]
          [] c = "c2" -> [total |-> PageStep,
                          pages |-> << <<PageItem("i_rivet", Craftable, Strength)>> >>]
          [] c = "c3" -> [total |-> 1,
                          pages |-> << <<PageItem("i_axe", Craftable, Strength)>> >>]]

\* the threads that resolve recipes at the same time (category workers)
Workers == {"w1", "w2"}

\* a worker that has not called recipe_management yet
Idle == [status |-> "idle", item_id |-> "", exc |-> "none", value |-> None]

(***************************************************************************)
(* State.                                                                  *)
(***************************************************************************)
VARIABLES
    api,          \* the remote catalog: item id -> response of /recipes/{id}
    result,       \* the results list passed to generate_empty_list_of_prices
    equipments,   \* EquipmentLedger: job -> name -> entry
    ingredients,  \* IngredientLedger: name -> entry
    recipes,      \* RecipeLedger: name -> entry
    pc,           \* position in generate_empty_list_of_prices
    job_i,        \* index of the job of the running for loop (lines 97, 103)
    item_i,       \* index of the item of the loop of line 104
    stack,        \* active process_recipe_ingredients calls: [recipe, i]
    files,        \* the three ledger files written by json_writer
    calls,        \* number of completed calls of generate_empty_list_of_prices
    first,        \* the forest given to the first call and what the call returned
    shuffled,     \* whether the second call got a forest with a shuffled recipe
    memo,         \* functools.cache of recipe_management: item id -> recipe
    fetched,      \* functools.cache of get_recipe_data: item id -> response body
    requests,     \* number of GET /recipes/{id} requests issued, per item id
    rstack,       \* per worker, its active recipe_management calls
    outcome,      \* per worker, the item it resolves and how the call ended
    over,         \* the item ids a call that sent a request for has ended with
    items_api,    \* the /items endpoint: category -> total and pages
    ansj,         \* the answer of prompt_job_selection
    mpc,          \* position of the main thread in extract_management
    main_i,       \* index of the running for loop of try_all_jobs
    job_call,     \* per job, its job_management call: position, loop index, caller
    cat_thread,   \* per category, its category_management thread
    jobs_data,    \* per job, jobs_data['items'] of its job_management call
    results,      \* the results list of extract_management
    results_file, \* data/json/results.json
    uncaught,     \* the exceptions that ended a thread: <<thread, kind>>
    named,        \* functools.cache of get_effect_name: the effect ids asked
    handled,      \* per page item, how its item_management call ended
    resolved_for, \* the items whose recipe item_management asked for
    existed,      \* whether data/json/results.json existed when the run started
    level_min,    \* ans_lvl_min of extract_management
    level_max,    \* ans_lvl_max of extract_management
    last,         \* the last answer the operator typed
    print_lock,   \* the global print_lock: 0 for None, else the lock made by job j
    taken,        \* per job, the lock get_print_lock returned to it (0: none yet)
    holder,       \* per lock, the job that holds it (0: free)
    fx_pc,        \* position of a call of effects_management on its own
    fx_item,      \* the item record given to that call
    fx_result     \* what that call returned or raised

aggVars == <<result, equipments, ingredients, recipes, pc, job_i, item_i, stack,
             files, calls, first, shuffled>>

resVars == <<memo, fetched, requests, rstack, outcome, over>>

promptVars == <<existed, level_min, level_max, last>>

lockVars == <<print_lock, taken, holder>>

runVars == <<items_api, ansj, mpc, main_i, job_call, cat_thread, jobs_data, results,
             results_file, uncaught, named, handled, resolved_for, promptVars, lockVars>>

\* the bounds of the level prompts
MinLevel == 0

MaxLevel == 200

\* the operator answered the prompts: all levels, no results file to overwrite
Prompted ==
    /\ existed = FALSE
    /\ level_min = MinLevel
    /\ level_max = MaxLevel
    /\ last = "200"

fxVars == <<fx_pc, fx_item, fx_result>>

vars == <<api, aggVars, resVars, runVars, fxVars>>

PageItems == {"i_sword", "i_hilt", "i_rivet", "i_axe"}

\* a job_management call that has not started
NoJob == [pc |-> "idle", k |-> 1, by |-> "nobody"]

\* a category_management thread that has not started
NoCategory == [pc |-> "idle", skip |-> 0, total |-> 0, data |-> <<>>, i |-> 1]

\* the extraction before extract_management reaches its job selection
RunIdle ==
    /\ main_i = 1
    /\ job_call = [j \in 1..Len(jobs) |-> NoJob]
    /\ cat_thread = [c \in Categories |-> NoCategory]
    /\ jobs_data = [j \in 1..Len(jobs) |-> <<>>]
    /\ results = <<>>
    /\ results_file = [written |-> FALSE, content |-> <<>>]
    /\ uncaught = {}
    /\ named = {}
    /\ handled = [id \in PageItems |-> "none"]
    /\ resolved_for = {}
    /\ print_lock = 0
    /\ taken = [j \in 1..Len(jobs) |-> 0]
    /\ holder = [l \in 1..Len(jobs) |-> 0]

\* effects_management is not called on its own
EffectsOff ==
    /\ fx_pc = "off"
    /\ fx_item = [effects |-> <<>>]
    /\ fx_result = Return(<<>>)

\* no extraction takes place
RunOff ==
    /\ items_api = ItemsApi(PageItem("i_hilt", Craftable, Strength))
    /\ ansj = "a"
    /\ mpc = "off"
    /\ RunIdle
    /\ Prompted

EmptyDict == <<>>

Put(dict, key, value) == (key :> value) @@ dict

(***************************************************************************)
(* set_price.py                                                            *)
(***************************************************************************)
\* a lookup that finds the name under any job of the equipment ledger
ingredient_in_equipments_any_job(ingredient_name, job, equips) ==
    \E j \in DOMAIN equips : ingredient_name \in DOMAIN equips[j]

\* ingredient_in_equipments, line 19
ingredient_in_equipments(ingredient_name, job, equips) ==
    job \in DOMAIN equips /\ ingredient_name \in DOMAIN equips[job]

\* a repeat sighting that replaces the quantity instead of adding to it
handle_ingredient_without_recipe_overwrite(ingredient, ingrs) ==
    Put(ingrs, ingredient.name,
        [price |-> -1, quantity |-> ingredient.quantity, img |-> ingredient.img])

\* handle_ingredient_without_recipe, lines 61-64: the upsert
handle_ingredient_without_recipe(ingredient, ingrs) ==
    IF ingredient.name \notin DOMAIN ingrs
    THEN Put(ingrs, ingredient.name,
             [price |-> -1, quantity |-> ingredient.quantity, img |-> ingredient.img])
    ELSE [ingrs EXCEPT ![ingredient.name].quantity = @ + ingredient.quantity]

\* an equipment quantity counting sightings instead of demanded units
record_equipment_by_one(ingredient, equips) ==
    IF ingredient_in_equipments(ingredient.name, ingredient.recipe.job, equips)
    THEN [equips EXCEPT ![ingredient.recipe.job][ingredient.name].quantity = @ + 1]
    ELSE equips

\* handle_ingredient_with_recipe, lines 36-38: the equipment quantity
record_equipment(ingredient, equips) ==
    IF ingredient_in_equipments(ingredient.name, ingredient.recipe.job, equips)
    THEN [equips EXCEPT ![ingredient.recipe.job][ingredient.name].quantity =
                            @ + ingredient.quantity]
    ELSE equips

\* a recipe upsert that stocks one more unit on every sighting of an equipment
record_recipe_stock_each(ingredient, recs, equips) ==
    LET is_equipment ==
            ingredient_in_equipments(ingredient.name, ingredient.recipe.job, equips)
        incoming == IF is_equipment THEN ingredient.quantity + 1 ELSE ingredient.quantity
    IN  IF ingredient.name \notin DOMAIN recs
        THEN Put(recs, ingredient.name,
                 [price |-> -1, job |-> ingredient.recipe.job, quantity |-> incoming,
                  is_equipment |-> is_equipment, img |-> ingredient.img])
        ELSE [recs EXCEPT ![ingredient.name].quantity = @ + incoming]

\* a recipe upsert whose repeat sighting replaces the quantity
record_recipe_last(ingredient, recs, equips) ==
    LET is_equipment ==
            ingredient_in_equipments(ingredient.name, ingredient.recipe.job, equips)
    IN  IF ingredient.name \notin DOMAIN recs
        THEN Put(recs, ingredient.name,
                 [price |-> -1, job |-> ingredient.recipe.job,
                  quantity |-> IF is_equipment THEN ingredient.quantity + 1
                                               ELSE ingredient.quantity,
                  is_equipment |-> is_equipment, img |-> ingredient.img])
        ELSE [recs EXCEPT ![ingredient.name].quantity = ingredient.quantity]

\* handle_ingredient_with_recipe, lines 36 and 39-48: the recipe upsert
record_recipe(ingredient, recs, equips) ==
    LET is_equipment ==
            ingredient_in_equipments(ingredient.name, ingredient.recipe.job, equips)
    IN  IF ingredient.name \notin DOMAIN recs
        THEN Put(recs, ingredient.name,
                 [price |-> -1,
                  job |-> ingredient.recipe.job,
                  quantity |-> IF is_equipment THEN ingredient.quantity + 1
                                               ELSE ingredient.quantity,
                  is_equipment |-> is_equipment,
                  img |-> ingredient.img])
        ELSE [recs EXCEPT ![ingredient.name].quantity = @ + ingredient.quantity]

\* the keys read by lines 31-34 and 58-60; a missing one raises KeyError
HasKeys(ingredient) == {"name", "quantity", "img"} \subseteq DOMAIN ingredient

\* seeded entries whose breakage rate is 0 instead of the sentinel
seed_items_zero_breakage(job) ==
    [n \in {job.items[k].name : k \in 1..Len(job.items)} |->
        [price |-> -1, breakage_rate |-> 0, quantity |-> 1,
         img |-> ImgOfName(n)]]

\* lines 99-102: the entries of one job, one per item name
seed_items(job) ==
    [n \in {job.items[k].name : k \in 1..Len(job.items)} |->
        LET k == CHOOSE k \in 1..Len(job.items) :
                     /\ job.items[k].name = n
                     /\ \A m \in k+1..Len(job.items) : job.items[m].name # n
        IN  [price |-> -1, breakage_rate |-> -1, quantity |-> 1,
             img |-> job.items[k].img]]

\* ledgers kept from one call to the next (module-level dictionaries)
kept_ledgers == [equipments |-> equipments, ingredients |-> ingredients, recipes |-> recipes]

\* line 95: the ledgers a call starts from
fresh_ledgers == [equipments |-> EmptyDict, ingredients |-> EmptyDict, recipes |-> EmptyDict]

(***************************************************************************)
(* generate_empty_list_of_prices, one step per loop iteration and per      *)
(* handled ingredient.                                                     *)
(***************************************************************************)
Top == stack[Len(stack)]

Frame(recipe) == [recipe |-> recipe, i |-> 1]

Advance(stk) == [stk EXCEPT ![Len(stk)].i = @ + 1]

Pop(stk) == SubSeq(stk, 1, Len(stk) - 1)

\* line 95
AggStart ==
    /\ pc = "call"
    /\ equipments' = fresh_ledgers.equipments
    /\ ingredients' = fresh_ledgers.ingredients
    /\ recipes' = fresh_ledgers.recipes
    /\ job_i' = 1
    /\ item_i' = 1
    /\ pc' = "seed"
    /\ UNCHANGED <<api, result, stack, files, calls, first, shuffled>>
    /\ UNCHANGED <<resVars, runVars, fxVars>>

\* lines 97-102, one job
Seed ==
    /\ pc = "seed"
    /\ job_i <= Len(result)
    /\ equipments' = Put(equipments, result[job_i].name, seed_items(result[job_i]))
    /\ job_i' = job_i + 1
    /\ UNCHANGED <<api, result, ingredients, recipes, pc, item_i, stack, files,
                   calls, first, shuffled>>
    /\ UNCHANGED <<resVars, runVars, fxVars>>

\* the first loop is over, the second (line 103) begins
SeedDone ==
    /\ pc = "seed"
    /\ job_i > Len(result)
    /\ pc' = "walk"
    /\ job_i' = 1
    /\ item_i' = 1
    /\ UNCHANGED <<api, result, equipments, ingredients, recipes, stack, files,
                   calls, first, shuffled>>
    /\ UNCHANGED <<resVars, runVars, fxVars>>

\* line 105: process_recipe_ingredients is called on the next item's recipe
EnterItem ==
    /\ pc = "walk"
    /\ stack = <<>>
    /\ job_i <= Len(result)
    /\ item_i <= Len(result[job_i].items)
    /\ stack' = <<Frame(result[job_i].items[item_i].recipes.ingredients)>>
    /\ UNCHANGED <<api, result, equipments, ingredients, recipes, pc, job_i, item_i,
                   files, calls, first, shuffled>>
    /\ UNCHANGED <<resVars, runVars, fxVars>>

\* line 103: the items of the job are done
NextJob ==
    /\ pc = "walk"
    /\ stack = <<>>
    /\ job_i <= Len(result)
    /\ item_i > Len(result[job_i].items)
    /\ job_i' = job_i + 1
    /\ item_i' = 1
    /\ UNCHANGED <<api, result, equipments, ingredients, recipes, pc, stack, files,
                   calls, first, shuffled>>
    /\ UNCHANGED <<resVars, runVars, fxVars>>

\* lines 31-34 and 58-60 on a dictionary without one of the keys
MissingKey ==
    /\ pc = "walk"
    /\ stack # <<>>
    /\ Top.i <= Len(Top.recipe)
    /\ ~HasKeys(Top.recipe[Top.i])
    /\ pc' = "KeyError"
    /\ UNCHANGED <<api, result, equipments, ingredients, recipes, job_i, item_i,
                   stack, files, calls, first, shuffled>>
    /\ UNCHANGED <<resVars, runVars, fxVars>>

\* lines 79-80: an ingredient without recipe
Leaf ==
    /\ pc = "walk"
    /\ stack # <<>>
    /\ Top.i <= Len(Top.recipe)
    /\ HasKeys(Top.recipe[Top.i])
    /\ ~Top.recipe[Top.i].hasRecipe
    /\ ingredients' = handle_ingredient_without_recipe(Top.recipe[Top.i], ingredients)
    /\ stack' = Advance(stack)
    /\ UNCHANGED <<api, result, equipments, recipes, pc, job_i, item_i, files,
                   calls, first, shuffled>>
    /\ UNCHANGED <<resVars, runVars, fxVars>>

\* lines 77-78 and 31-35: an ingredient with a recipe, whose ingredients are
\* processed first
Descend ==
    /\ pc = "walk"
    /\ stack # <<>>
    /\ Top.i <= Len(Top.recipe)
    /\ HasKeys(Top.recipe[Top.i])
    /\ Top.recipe[Top.i].hasRecipe
    /\ stack' = Append(stack, Frame(Top.recipe[Top.i].recipe.ingredients))
    /\ UNCHANGED <<api, result, equipments, ingredients, recipes, pc, job_i, item_i,
                   files, calls, first, shuffled>>
    /\ UNCHANGED <<resVars, runVars, fxVars>>

\* lines 36-48: the recursive call has returned, the ingredient is recorded
Record ==
    /\ pc = "walk"
    /\ Len(stack) > 1
    /\ Top.i > Len(Top.recipe)
    /\ LET parent == stack[Len(stack) - 1]
           ingredient == parent.recipe[parent.i]
       IN  /\ equipments' = record_equipment(ingredient, equipments)
           /\ recipes' = record_recipe(ingredient, recipes, equipments')
    /\ stack' = Advance(Pop(stack))
    /\ UNCHANGED <<api, result, ingredients, pc, job_i, item_i, files, calls,
                   first, shuffled>>
    /\ UNCHANGED <<resVars, runVars, fxVars>>

\* line 105 returns: the item's tree is done
LeaveItem ==
    /\ pc = "walk"
    /\ Len(stack) = 1
    /\ Top.i > Len(Top.recipe)
    /\ stack' = <<>>
    /\ item_i' = item_i + 1
    /\ UNCHANGED <<api, result, equipments, ingredients, recipes, pc, job_i, files,
                   calls, first, shuffled>>
    /\ UNCHANGED <<resVars, runVars, fxVars>>

\* lines 106-108 and 113
WriteFiles ==
    /\ pc = "walk"
    /\ stack = <<>>
    /\ job_i > Len(result)
    /\ files' = [equipments |-> equipments, ingredients |-> ingredients,
                 recipes |-> recipes]
    /\ calls' = calls + 1
    /\ pc' = "done"
    /\ UNCHANGED <<api, result, equipments, ingredients, recipes, job_i, item_i,
                   stack, first, shuffled>>
    /\ UNCHANGED <<resVars, runVars, fxVars>>

(***************************************************************************)
(* A second call, on the same forest or on the forest with the ingredient  *)
(* list of one recipe (at any depth) in another order.                     *)
(***************************************************************************)
Permuted(list, p) == [k \in 1..Len(list) |-> list[p[k]]]

RECURSIVE RecipeShuffles(_)
RecipeShuffles(recipe) ==
    {[recipe EXCEPT !.ingredients = Permuted(@, p)] :
        p \in Permutations(1..Len(recipe.ingredients))}
    \cup
    UNION {{[recipe EXCEPT !.ingredients[k].recipe = s] :
               s \in RecipeShuffles(recipe.ingredients[k].recipe)} :
           k \in {k \in 1..Len(recipe.ingredients) : recipe.ingredients[k].hasRecipe}}

ForestShuffles(forest) ==
    UNION {UNION {{[forest EXCEPT ![j].items[k].recipes = s] :
                      s \in RecipeShuffles(forest[j].items[k].recipes)} :
                  k \in 1..Len(forest[j].items)} :
           j \in 1..Len(forest)}

CallAgain ==
    /\ pc = "done"
    /\ calls = 1
    /\ \E forest \in ForestShuffles(result) :
          /\ result' = forest
          /\ shuffled' = (forest # result)
    /\ first' = [equipments |-> equipments, ingredients |-> ingredients,
                 recipes |-> recipes, forest |-> first.forest]
    /\ pc' = "call"
    /\ UNCHANGED <<api, equipments, ingredients, recipes, job_i, item_i, stack,
                   files, calls>>
    /\ UNCHANGED <<resVars, runVars, fxVars>>

AggInit ==
    /\ \E hilt \in HiltRecipes, sword \in SwordRecipes, axe \in AxeRecipes,
          hiltJobs \in SUBSET JobNames, img \in BOOLEAN :
          /\ api = Catalog(hilt, sword, axe)
          /\ result = IF img THEN ForestWithImg(ResultOf(api, hiltJobs))
                             ELSE ResultOf(api, hiltJobs)
    /\ equipments = EmptyDict
    /\ ingredients = EmptyDict
    /\ recipes = EmptyDict
    /\ pc = "call"
    /\ job_i = 1
    /\ item_i = 1
    /\ stack = <<>>
    /\ files = [equipments |-> EmptyDict, ingredients |-> EmptyDict,
                recipes |-> EmptyDict]
    /\ calls = 0
    /\ first = [equipments |-> EmptyDict, ingredients |-> EmptyDict,
                recipes |-> EmptyDict, forest |-> result]
    /\ shuffled = FALSE
    /\ memo = EmptyDict
    /\ fetched = EmptyDict
    /\ requests = [id \in CraftIds |-> 0]
    /\ rstack = [w \in Workers |-> <<>>]
    /\ outcome = [w \in Workers |-> Idle]
    /\ over = {}
    /\ RunOff
    /\ EffectsOff

AggNext ==
    \/ AggStart
    \/ Seed
    \/ SeedDone
    \/ EnterItem
    \/ NextJob
    \/ MissingKey
    \/ Leaf
    \/ Descend
    \/ Record
    \/ LeaveItem
    \/ WriteFiles
    \/ CallAgain

SpecAgg == AggInit /\ [][AggNext]_vars

(***************************************************************************)
(* Properties of the aggregation engine.                                   *)
(***************************************************************************)
RECURSIVE Occurrences(_)
\* every ingredient occurrence of a recipe tree, at any depth
Occurrences(list) ==
    IF list = <<>> THEN <<>>
    ELSE <<Head(list)>>
         \o (IF Head(list).hasRecipe THEN Occurrences(Head(list).recipe.ingredients)
                                     ELSE <<>>)
         \o Occurrences(Tail(list))

RECURSIVE ItemsOccurrences(_)
ItemsOccurrences(items) ==
    IF items = <<>> THEN <<>>
    ELSE Occurrences(Head(items).recipes.ingredients) \o ItemsOccurrences(Tail(items))

RECURSIVE ForestOccurrences(_)
\* every ingredient occurrence of the forest, across all items and all jobs
ForestOccurrences(forest) ==
    IF forest = <<>> THEN <<>>
    ELSE ItemsOccurrences(Head(forest).items) \o ForestOccurrences(Tail(forest))

RECURSIVE SumWhere(_, _)
\* the sum of the quantities of the occurrences selected by the indices in keep
SumWhere(occ, keep) ==
    IF keep = {} THEN 0
    ELSE LET k == CHOOSE k \in keep : TRUE
         IN  occ[k].quantity + SumWhere(occ, keep \ {k})

\* the sum of the quantities listed for a name over all its occurrences
Demand(occ, name) == SumWhere(occ, {k \in 1..Len(occ) : occ[k].name = name})

\* the name is an item of the job record named like the recipe's declared job
SeededUnder(forest, job, name) ==
    \E j \in 1..Len(forest) :
        /\ forest[j].name = job
        /\ \E k \in 1..Len(forest[j].items) : forest[j].items[k].name = name

\* the demand for a name from the occurrences whose recipe declares the job
DemandOfJob(occ, job, name) ==
    SumWhere(occ, {k \in 1..Len(occ) : /\ occ[k].name = name
                                       /\ occ[k].hasRecipe
                                       /\ occ[k].recipe.job = job})

Finished == pc = "done"

\* C1: after the aggregation of a forest, the ingredient ledger's quantity of
\* every name occurring without recipe is the sum of the quantities of all
\* occurrences of that name, at any depth, across all items and jobs (each
\* occurrence counted as listed in its parent, not multiplied by ancestors).
C1_IngredientQuantityConserved ==
    Finished =>
        LET occ == ForestOccurrences(result)
        IN  \A k \in 1..Len(occ) :
                ~occ[k].hasRecipe =>
                    /\ occ[k].name \in DOMAIN ingredients
                    /\ ingredients[occ[k].name].quantity = Demand(occ, occ[k].name)

\* wood is demanded by the sword (directly and below a hilt) and by the axe
C1_Witness ==
    /\ Finished
    /\ LET sword == result[1].items[1].recipes.ingredients
           axe == result[2].items[1].recipes.ingredients
       IN  /\ \E k \in 1..Len(sword) : sword[k].name = "Wood"
           /\ \E k \in 1..Len(sword) : sword[k].name = "Hilt"
           /\ axe[1].name = "Wood"
    /\ ingredients["Wood"].quantity >= 4

\* C2: after the aggregation, the recipe ledger's quantity of every name
\* occurring with a recipe is the sum of the incoming quantities of all its
\* occurrences, plus exactly 1 if the name is classified as equipment (once,
\* on the first sighting, whatever the number of parents) and plus 0 otherwise.
C2_RecipeQuantity ==
    Finished =>
        LET occ == ForestOccurrences(result)
        IN  \A k \in 1..Len(occ) :
                occ[k].hasRecipe =>
                    /\ occ[k].name \in DOMAIN recipes
                    /\ recipes[occ[k].name].quantity =
                           Demand(occ, occ[k].name)
                           + (IF SeededUnder(result, occ[k].recipe.job, occ[k].name)
                              THEN 1 ELSE 0)

\* the hilt is an equipment of its recipe's job, demanded more than once by the
\* sword and also by the axe
C2_Witness ==
    /\ Finished
    /\ SeededUnder(result, "Smith", "Hilt")
    /\ LET sword == result[1].items[1].recipes.ingredients
           axe == result[2].items[1].recipes.ingredients
       IN  /\ Cardinality({k \in 1..Len(sword) : sword[k].name = "Hilt"}) >= 2
           /\ axe[1].name = "Hilt"
    /\ recipes["Hilt"].is_equipment

\* the equipment ledger right after seeding: one entry of quantity 1 per item
SeededLedger(forest) ==
    [job \in {forest[j].name : j \in 1..Len(forest)} |->
        LET j == CHOOSE j \in 1..Len(forest) : forest[j].name = job
        IN  [n \in {forest[j].items[k].name : k \in 1..Len(forest[j].items)} |->
                LET k == CHOOSE k \in 1..Len(forest[j].items) : forest[j].items[k].name = n
                IN  [price |-> -1, breakage_rate |-> -1, quantity |-> 1,
                     img |-> forest[j].items[k].img]]]

NothingTraversed == ingredients = EmptyDict /\ recipes = EmptyDict /\ stack = <<>>

\* C3: the equipment ledger is seeded with exactly one entry of quantity 1 per
\* top-level item before any recipe is traversed, and at the end each entry's
\* quantity is 1 plus the sum of the incoming quantities of every occurrence
\* of its name as an ingredient with recipe classified as equipment.
C3_EquipmentSeedAndQuantity ==
    /\ pc = "seed" => NothingTraversed
    /\ (pc = "walk" /\ job_i = 1 /\ item_i = 1 /\ stack = <<>>) =>
          /\ NothingTraversed
          /\ equipments = SeededLedger(result)
          /\ \A j \in 1..Len(result) :
                Cardinality(DOMAIN equipments[result[j].name]) = Len(result[j].items)
    /\ Finished =>
          /\ DOMAIN equipments = DOMAIN SeededLedger(result)
          /\ \A job \in DOMAIN equipments :
                /\ DOMAIN equipments[job] = DOMAIN SeededLedger(result)[job]
                /\ \A n \in DOMAIN equipments[job] :
                      equipments[job][n].quantity =
                          1 + DemandOfJob(ForestOccurrences(result), job, n)

\* the hilt is seeded under two jobs; only the entry of its recipe's job grows
C3_Witness ==
    /\ Finished
    /\ SeededUnder(result, "Smith", "Hilt")
    /\ SeededUnder(result, "Carver", "Hilt")
    /\ equipments["Smith"]["Hilt"].quantity >= 4
    /\ equipments["Carver"]["Hilt"].quantity = 1
    /\ equipments["Smith"]["Sword"].quantity = 1

SameLedgers ==
    /\ equipments = first.equipments
    /\ ingredients = first.ingredients
    /\ recipes = first.recipes

\* C5: permuting the ingredient list of any single recipe, at any depth,
\* leaves the three final ledgers identical: same keys and same fields.
C5_OrderIndependent ==
    (Finished /\ calls = 2 /\ shuffled) => SameLedgers

\* the second call ran on a forest that differs from the first call's in the
\* order of a recipe below the top level, and both recorded hilts and wood
C5_Witness ==
    /\ Finished
    /\ calls = 2
    /\ shuffled
    /\ \E j \in 1..Len(result) : \E k \in 1..Len(result[j].items) :
          /\ result[j].items[k].name = "Sword"
          /\ result[j].items[k].recipes.ingredients =
                first.forest[j].items[k].recipes.ingredients
    /\ "Hilt" \in DOMAIN recipes
    /\ "Wood" \in DOMAIN ingredients

\* C6: a second aggregation of the same forest yields identical ledgers: each
\* call starts from empty ledgers and the first call leaves the forest as it
\* was given.
C6_Idempotent ==
    /\ (Finished /\ calls = 1) => result = first.forest
    /\ (Finished /\ calls = 2 /\ ~shuffled) => (SameLedgers /\ result = first.forest)
    /\ pc = "seed" => NothingTraversed

\* the second call on the unchanged forest has finished with non-empty ledgers
C6_Witness ==
    /\ Finished
    /\ calls = 2
    /\ ~shuffled
    /\ "Hilt" \in DOMAIN recipes
    /\ recipes["Hilt"].is_equipment
    /\ "Wood" \in DOMAIN ingredients

\* C7: in every state of the aggregation every ledger entry has price -1 and
\* every equipment entry breakage_rate -1.
C7_Sentinels ==
    /\ \A n \in DOMAIN ingredients : ingredients[n].price = -1
    /\ \A n \in DOMAIN recipes : recipes[n].price = -1
    /\ \A job \in DOMAIN equipments : \A n \in DOMAIN equipments[job] :
          /\ equipments[job][n].price = -1
          /\ equipments[job][n].breakage_rate = -1

\* mid-traversal, after an upsert into each ledger and an equipment increment
C7_Witness ==
    /\ pc = "walk"
    /\ stack # <<>>
    /\ "Wood" \in DOMAIN ingredients /\ ingredients["Wood"].quantity > 1
    /\ "Hilt" \in DOMAIN recipes /\ recipes["Hilt"].quantity > 2
    /\ "Smith" \in DOMAIN equipments /\ "Hilt" \in DOMAIN equipments["Smith"]
    /\ equipments["Smith"]["Hilt"].quantity > 1

(***************************************************************************)
(* The resolver's trees as input of the aggregation engine.                *)
(***************************************************************************)
IdOfName(name) == CHOOSE id \in ItemIds : ItemRecord(id).name = name

\* the forest holds, for every item, the tree recipe_management returns for it
ResolverProduced ==
    \A j \in 1..Len(result) : \A k \in 1..Len(result[j].items) :
        result[j].items[k].recipes =
            recipe_management(api, IdOfName(result[j].items[k].name)).value

IngredientRefFields == {"name", "quantity", "hasRecipe", "secretRecipe", "img", "recipe"}

\* C8: every ingredient record produced by recipe_management carries the six
\* IngredientRef fields, so the aggregation engine reads the name, quantity
\* and image of every ingredient of a resolver-produced tree and completes
\* without error.
C8_ResolverRecordsAggregate ==
    ResolverProduced =>
        /\ pc # "KeyError"
        /\ (pc = "walk" /\ stack # <<>> /\ Top.i <= Len(Top.recipe)) =>
              IngredientRefFields \subseteq DOMAIN Top.recipe[Top.i]

(***************************************************************************)
(* recipe_management step by step, by several workers sharing the caches   *)
(* of functools.cache, against a catalog that may be faulty.               *)
(***************************************************************************)
\* the job -> names structure of an equipment ledger
KeysOf(equips) == [job \in DOMAIN equips |-> DOMAIN equips[job]]

\* the traversal of the recipe trees is running (lines 103-105)
Traversing == pc = "walk"

\* handle_ingredient_with_recipe is about to record the ingredient (line 36)
Recording == Traversing /\ Len(stack) > 1 /\ Top.i > Len(Top.recipe)

\* the ingredient handle_ingredient_with_recipe is about to record
Recorded == stack[Len(stack) - 1].recipe[stack[Len(stack) - 1].i]

\* the name of the recorded ingredient is seeded, but not under its recipe's job
SeededElsewhere(ingredient) ==
    /\ ~SeededUnder(result, ingredient.recipe.job, ingredient.name)
    /\ \E job \in JobNames : SeededUnder(result, job, ingredient.name)

\* a step of the traversal keeps the keys of the equipment ledger and every
\* field of its entries but the quantity, which does not decrease
KeysKept ==
    /\ KeysOf(equipments') = KeysOf(equipments)
    /\ \A job \in DOMAIN equipments : \A n \in DOMAIN equipments[job] :
          /\ equipments'[job][n].quantity >= equipments[job][n].quantity
          /\ [equipments'[job][n] EXCEPT !.quantity = 0]
                 = [equipments[job][n] EXCEPT !.quantity = 0]

\* recording an ingredient seeded under another job only: no equipment
\* quantity moves, the entry is not an equipment and gets the bare quantity
NoCrossJobMatch ==
    LET n == Recorded.name
    IN  /\ equipments' = equipments
        /\ ~recipes'[n].is_equipment
        /\ recipes'[n].quantity =
               (IF n \in DOMAIN recipes THEN recipes[n].quantity ELSE 0)
               + Recorded.quantity

\* is_equipment of every entry of the recipe ledger says whether the name is
\* a key of the equipment ledger under the entry's job
ClassifiedBySeed ==
    \A n \in DOMAIN recipes :
        /\ recipes[n].is_equipment
               <=> ingredient_in_equipments(n, recipes[n].job, equipments)
        /\ recipes[n].is_equipment <=> SeededUnder(result, recipes[n].job, n)

\* C16: the traversal never adds or removes a key of the equipment ledger, it
\* only increments quantities; at every step is_equipment of a recipe entry is
\* true exactly when the entry's name is seeded under the entry's job; an
\* ingredient seeded under another job than its recipe's is not classified as
\* equipment, gets no +1 and increments no equipment quantity
C16_ClassifiedByOwnJob ==
    /\ []ClassifiedBySeed
    /\ [][Traversing => KeysKept]_vars
    /\ [][(Recording /\ SeededElsewhere(Recorded)) => NoCrossJobMatch]_vars

\* the hilt is a Carver equipment whose recipe is a Smith's: demanded by the
\* sword and by the axe, it is a plain recipe and the Carver entry stays at 1
C16_Witness ==
    /\ Finished
    /\ SeededUnder(result, "Carver", "Hilt")
    /\ ~SeededUnder(result, "Smith", "Hilt")
    /\ "Hilt" \in DOMAIN recipes
    /\ ~recipes["Hilt"].is_equipment
    /\ recipes["Hilt"].job = "Smith"
    /\ recipes["Hilt"].quantity = Demand(ForestOccurrences(result), "Hilt")
    /\ recipes["Hilt"].quantity > 1
    /\ equipments["Carver"]["Hilt"].quantity = 1

\* recipes of the sword in the catalogs below
SwordOrders == {<<[id |-> "i_hilt", quantity |-> 1], [id |-> "i_wood", quantity |-> MaxQty]>>,
                <<[id |-> "i_wood", quantity |-> MaxQty], [id |-> "i_hilt", quantity |-> 1]>>}

\* <<recipe, ingredient>>: the recipe's ingredients list omits the ingredient
Omissions == {<<"i_sword", "i_wood">>, <<"i_sword", "i_hilt">>,
              <<"i_hilt", "i_wood">>, <<"i_hilt", "i_rivet">>}

\* the catalog whose /recipes/{id} answers 500 for the ids in down and whose
\* ingredients lists leave out the records in omitted
FaultyCatalog(base, down, omitted) ==
    [id \in CraftIds |->
        [base[id] EXCEPT !.status = IF id \in down THEN 500 ELSE 200,
                         !.ingredients = {r \in @ : <<id, r.id>> \notin omitted}]]

\* the items whose recipe item_management asks for
Targets == {"i_sword", "i_axe", "i_hilt"}

NoData == [status |-> 0, job |-> "", ingredientIds |-> <<>>, quantities |-> <<>>,
           ingredients |-> {}]

\* a call of recipe_management(item_id) that has not looked up its cache yet;
\* known: a call of recipe_management(item_id) had returned when this one started,
\* late: a call that sent a request for item_id had ended when this one started,
\* sent: this call sent the request for item_id
CallFrame(item_id) ==
    [item_id |-> item_id, phase |-> "enter", i |-> 1, data |-> NoData,
     res |-> [job |-> "", ingredients |-> <<>>],
     known |-> item_id \in DOMAIN memo, late |-> item_id \in over, sent |-> FALSE]

\* the item ids the active calls of worker w sent a request for
SentBy(w) == {rstack[w][k].item_id : k \in {l \in 1..Len(rstack[w]) : rstack[w][l].sent}}

RTop(w) == rstack[w][Len(rstack[w])]

\* the ingredient record of the running iteration of the frame (line 260)
FoundIn(frame) ==
    get_ingredient_with_id(frame.data.ingredientIds[frame.i], frame.data.ingredients)

\* line 256: res once the response body is known
WithData(frame, data) ==
    [frame EXCEPT !.phase = "loop", !.data = data,
                  !.res = [job |-> data.job, ingredients |-> <<>>]]

\* the stack and outcome of worker w once its innermost call returns value:
\* the caller appends the ingredient (lines 266-273) or the worker is done
Delivered(w, value) ==
    LET rest == Pop(rstack[w])
    IN  IF rest = <<>>
        THEN [stack |-> <<>>,
              outcome |-> [outcome[w] EXCEPT !.status = "returned", !.value = value]]
        ELSE LET parent == rest[Len(rest)]
             IN  [stack |-> [rest EXCEPT
                                ![Len(rest)].res.ingredients =
                                    Append(@, IngredientEntry(FoundIn(parent).value,
                                                  parent.data.quantities[parent.i], value)),
                                ![Len(rest)].i = @ + 1],
                  outcome |-> outcome[w]]

\* an exception leaves every active call of the worker: none of them catches
Raised(w, kind) ==
    [stack |-> <<>>, outcome |-> [outcome[w] EXCEPT !.status = "raised", !.exc = kind]]

\* item_management calls recipe_management(item['id']) (line 288)
StartResolve(w) ==
    /\ outcome[w].status = "idle"
    /\ \E id \in Targets :
          /\ outcome' = [outcome EXCEPT ![w] = [@ EXCEPT !.status = "running", !.item_id = id]]
          /\ rstack' = [rstack EXCEPT ![w] = <<CallFrame(id)>>]
    /\ UNCHANGED <<api, aggVars, fxVars, runVars, memo, fetched, requests, over>>

\* line 244: the cache of recipe_management is looked up
EnterCall(w) ==
    /\ rstack[w] # <<>>
    /\ RTop(w).phase = "enter"
    /\ IF RTop(w).item_id \in DOMAIN memo
       THEN LET d == Delivered(w, memo[RTop(w).item_id])
            IN  rstack' = [rstack EXCEPT ![w] = d.stack] /\ outcome' = [outcome EXCEPT ![w] = d.outcome]
       ELSE /\ rstack' = [rstack EXCEPT ![w][Len(rstack[w])].phase = "fetch"]
            /\ UNCHANGED outcome
    /\ UNCHANGED <<api, aggVars, fxVars, runVars, memo, fetched, requests, over>>

\* a get_recipe_data without cache: every call sends the request
FetchCall_uncached(w) ==
    /\ rstack[w] # <<>>
    /\ RTop(w).phase = "fetch"
    /\ rstack' = [rstack EXCEPT ![w][Len(rstack[w])].phase = "http",
                                 ![w][Len(rstack[w])].sent = TRUE]
    /\ requests' = [requests EXCEPT ![RTop(w).item_id] = @ + 1]
    /\ UNCHANGED <<api, aggVars, fxVars, runVars, memo, fetched, outcome, over>>

\* lines 255 and 208: the cache of get_recipe_data is looked up; on a miss
\* the request is sent (line 220)
FetchCall(w) ==
    /\ rstack[w] # <<>>
    /\ RTop(w).phase = "fetch"
    /\ IF RTop(w).item_id \in DOMAIN fetched
       THEN /\ rstack' = [rstack EXCEPT ![w][Len(rstack[w])] =
                              WithData(@, fetched[RTop(w).item_id])]
            /\ UNCHANGED requests
       ELSE /\ rstack' = [rstack EXCEPT ![w][Len(rstack[w])].phase = "http",
                                         ![w][Len(rstack[w])].sent = TRUE]
            /\ requests' = [requests EXCEPT ![RTop(w).item_id] = @ + 1]
    /\ UNCHANGED <<api, aggVars, fxVars, runVars, memo, fetched, outcome, over>>

\* lines 221-224: the response arrives
HttpResponse(w) ==
    /\ rstack[w] # <<>>
    /\ RTop(w).phase = "http"
    /\ LET got == get_recipe_data(api, RTop(w).item_id)
       IN  IF got.exc = "none"
           THEN /\ fetched' = Put(fetched, RTop(w).item_id, got.value)
                /\ rstack' = [rstack EXCEPT ![w][Len(rstack[w])] = WithData(@, got.value)]
                /\ UNCHANGED <<outcome, over>>
           ELSE /\ rstack' = [rstack EXCEPT ![w] = Raised(w, got.exc).stack]
                /\ outcome' = [outcome EXCEPT ![w] = Raised(w, got.exc).outcome]
                /\ over' = over \cup SentBy(w)
                /\ UNCHANGED fetched
    /\ UNCHANGED <<api, aggVars, fxVars, runVars, memo, requests>>

InLoop(w) ==
    /\ rstack[w] # <<>>
    /\ RTop(w).phase = "loop"
    /\ RTop(w).i <= Len(RTop(w).data.ingredientIds)

\* lines 260 and 241: the identifier is not in the ingredients list
LoopNotFound(w) ==
    /\ InLoop(w)
    /\ FoundIn(RTop(w)).exc # "none"
    /\ rstack' = [rstack EXCEPT ![w] = Raised(w, FoundIn(RTop(w)).exc).stack]
    /\ outcome' = [outcome EXCEPT ![w] = Raised(w, FoundIn(RTop(w)).exc).outcome]
    /\ over' = over \cup SentBy(w)
    /\ UNCHANGED <<api, aggVars, fxVars, runVars, memo, fetched, requests>>

\* lines 258-273 for an ingredient without recipe
LoopAppend(w) ==
    /\ InLoop(w)
    /\ FoundIn(RTop(w)).exc = "none"
    /\ ~FoundIn(RTop(w)).value.hasRecipe
    /\ rstack' = [rstack EXCEPT
                     ![w][Len(rstack[w])].res.ingredients =
                         Append(@, IngredientEntry(FoundIn(RTop(w)).value,
                                       RTop(w).data.quantities[RTop(w).i], None)),
                     ![w][Len(rstack[w])].i = @ + 1]
    /\ UNCHANGED <<api, aggVars, fxVars, runVars, memo, fetched, requests, outcome, over>>

\* a recursion that detects cycles: an ingredient whose resolution is in
\* progress on the stack of the worker is appended without recipe
LoopRecurse_cycle_checked(w) ==
    /\ InLoop(w)
    /\ FoundIn(RTop(w)).exc = "none"
    /\ FoundIn(RTop(w)).value.hasRecipe
    /\ IF \E k \in 1..Len(rstack[w]) :
             rstack[w][k].item_id = RTop(w).data.ingredientIds[RTop(w).i]
       THEN rstack' = [rstack EXCEPT
                         ![w][Len(rstack[w])].res.ingredients =
                             Append(@, IngredientEntry(FoundIn(RTop(w)).value,
                                           RTop(w).data.quantities[RTop(w).i], None)),
                         ![w][Len(rstack[w])].i = @ + 1]
       ELSE rstack' = [rstack EXCEPT ![w] =
                         Append(@, CallFrame(RTop(w).data.ingredientIds[RTop(w).i]))]
    /\ UNCHANGED <<api, aggVars, fxVars, runVars, memo, fetched, requests, outcome, over>>

\* lines 265-266: the recursive call; a call deeper than the interpreter
\* allows raises RecursionError
LoopRecurse(w) ==
    /\ InLoop(w)
    /\ FoundIn(RTop(w)).exc = "none"
    /\ FoundIn(RTop(w)).value.hasRecipe
    /\ IF Len(rstack[w]) < MaxDepth
       THEN /\ rstack' = [rstack EXCEPT ![w] =
                             Append(@, CallFrame(RTop(w).data.ingredientIds[RTop(w).i]))]
            /\ UNCHANGED <<outcome, over>>
       ELSE \* the stack of the thread is exhausted: RecursionError
            /\ rstack' = [rstack EXCEPT ![w] = Raised(w, "RecursionError").stack]
            /\ outcome' = [outcome EXCEPT ![w] = Raised(w, "RecursionError").outcome]
            /\ over' = over \cup SentBy(w)
    /\ UNCHANGED <<api, aggVars, fxVars, runVars, memo, fetched, requests>>

\* line 274: the call returns and functools.cache stores the result
ReturnRecipe(w) ==
    /\ rstack[w] # <<>>
    /\ RTop(w).phase = "loop"
    /\ RTop(w).i > Len(RTop(w).data.ingredientIds)
    /\ memo' = Put(memo, RTop(w).item_id, RTop(w).res)
    /\ rstack' = [rstack EXCEPT ![w] = Delivered(w, RTop(w).res).stack]
    /\ outcome' = [outcome EXCEPT ![w] = Delivered(w, RTop(w).res).outcome]
    /\ over' = IF RTop(w).sent THEN over \cup {RTop(w).item_id} ELSE over
    /\ UNCHANGED <<api, aggVars, fxVars, runVars, fetched, requests>>

\* generate_empty_list_of_prices is not called
AggOff ==
    /\ result = <<>>
    /\ equipments = EmptyDict
    /\ ingredients = EmptyDict
    /\ recipes = EmptyDict
    /\ pc = "off"
    /\ job_i = 1
    /\ item_i = 1
    /\ stack = <<>>
    /\ files = [equipments |-> EmptyDict, ingredients |-> EmptyDict,
                recipes |-> EmptyDict]
    /\ calls = 0
    /\ first = [equipments |-> EmptyDict, ingredients |-> EmptyDict,
                recipes |-> EmptyDict, forest |-> <<>>]
    /\ shuffled = FALSE

ResolveInit ==
    /\ \E hilt \in HiltRecipes, sword \in SwordOrders, axe \in AxeRecipes,
          down \in SUBSET CraftIds, omitted \in SUBSET Omissions :
          /\ Cardinality(down) + Cardinality(omitted) <= MaxFaults
          /\ api = FaultyCatalog(Catalog(hilt, sword, axe), down, omitted)
    /\ AggOff
    /\ memo = EmptyDict
    /\ fetched = EmptyDict
    /\ requests = [id \in CraftIds |-> 0]
    /\ rstack = [w \in Workers |-> <<>>]
    /\ outcome = [w \in Workers |-> Idle]
    /\ over = {}
    /\ RunOff
    /\ EffectsOff

ResolveNext ==
    \E w \in Workers :
        \/ StartResolve(w)
        \/ EnterCall(w)
        \/ FetchCall(w)
        \/ HttpResponse(w)
        \/ LoopNotFound(w)
        \/ LoopAppend(w)
        \/ LoopRecurse(w)
        \/ ReturnRecipe(w)

SpecResolve == ResolveInit /\ [][ResolveNext]_vars

(***************************************************************************)
(* Properties of the resolver.                                             *)
(***************************************************************************)
Listed(id) == {r.id : r \in api[id].ingredients}

\* positions of the recipe of id whose identifier its ingredients list omits
AbsentAt(id) ==
    {k \in 1..Len(api[id].ingredientIds) : api[id].ingredientIds[k] \notin Listed(id)}

\* the recipe of id is served and names an identifier its ingredients list omits
Omits(id) == api[id].status = 200 /\ AbsentAt(id) # {}

\* the identifiers of the recipe of id that are listed with a recipe of their own
SubRecipes(id, upto) ==
    {api[id].ingredientIds[k] : k \in {k \in 1..upto :
        \E r \in api[id].ingredients : r.id = api[id].ingredientIds[k] /\ r.hasRecipe}}

RECURSIVE Tainted(_)
\* id omits an identifier, or the resolution of id encloses one of an item that does
Tainted(id) ==
    \/ Omits(id)
    \/ \E c \in SubRecipes(id, Len(api[id].ingredientIds)) : Tainted(c)

RECURSIVE Fails(_)
\* no resolution of id can return: a failing response or an omitted identifier
\* at id or below it
Fails(id) ==
    \/ api[id].status # 200
    \/ AbsentAt(id) # {}
    \/ \E c \in SubRecipes(id, Len(api[id].ingredientIds)) : Fails(c)

FirstAbsent(id) == CHOOSE k \in AbsentAt(id) : \A m \in AbsentAt(id) : k <= m

\* an ingredient listed before the first omitted identifier cannot be resolved
EarlierFails(id) == \E c \in SubRecipes(id, FirstAbsent(id) - 1) : Fails(c)

Ended(w) == outcome[w].status \in {"returned", "raised"}

NoRecipeFor(id) ==
    /\ id \notin DOMAIN memo
    /\ \A w \in Workers : outcome[w].item_id = id => outcome[w].status # "returned"

\* C10 as stated: resolving an item whose recipe names an identifier absent
\* from its ingredients list raises IngredientNotFound; no recipe is returned
\* or memoized for it, nor for any item whose resolution encloses it.
C10_OmittedRaisesIngredientNotFound ==
    \A id \in CraftIds :
        /\ Tainted(id) => NoRecipeFor(id)
        /\ Omits(id) =>
              \A w \in Workers :
                  (outcome[w].item_id = id /\ Ended(w)) =>
                      outcome[w].status = "raised" /\ outcome[w].exc = "IngredientNotFound"

\* C10 as amended: the resolution raises IngredientNotFound unless the
\* resolution of an ingredient listed before the absent identifier raises
\* first (that error then propagates); either way no recipe is returned or
\* memoized for the item, nor for any item whose resolution encloses it, and
\* the raising worker is left with no active call.
C10_OmittedNeverResolves ==
    \A id \in CraftIds :
        /\ Tainted(id) => NoRecipeFor(id)
        /\ Omits(id) =>
              \A w \in Workers :
                  (outcome[w].item_id = id /\ Ended(w)) =>
                      /\ outcome[w].status = "raised"
                      /\ rstack[w] = <<>>
                      /\ outcome[w].exc = "IngredientNotFound" \/ EarlierFails(id)
                      /\ ~EarlierFails(id) => outcome[w].exc = "IngredientNotFound"

\* the hilt omits an identifier; a resolution of the sword, which encloses the
\* hilt's, raised IngredientNotFound, and the other worker's resolution of the
\* hilt itself raised it too
C10_Witness ==
    /\ Omits("i_hilt")
    /\ ~Omits("i_sword")
    /\ \E w \in Workers :
          /\ outcome[w].item_id = "i_sword"
          /\ outcome[w].status = "raised"
          /\ outcome[w].exc = "IngredientNotFound"
    /\ \E w \in Workers :
          /\ outcome[w].item_id = "i_hilt"
          /\ outcome[w].status = "raised"
          /\ outcome[w].exc = "IngredientNotFound"

\* the active calls
AllCalls == UNION {{rstack[w][k] : k \in 1..Len(rstack[w])} : w \in Workers}

\* every value the caches hold and every value returned is the one the
\* catalog determines
SingleValue ==
    /\ \A id \in DOMAIN memo : memo[id] = recipe_management(api, id).value
    /\ \A id \in DOMAIN fetched : fetched[id] = api[id]
    /\ \A w \in Workers :
          outcome[w].status = "returned" =>
              /\ outcome[w].item_id \in DOMAIN memo
              /\ outcome[w].value = memo[outcome[w].item_id]
    /\ \A v, w \in Workers :
          (/\ outcome[v].status = "returned"
           /\ outcome[w].status = "returned"
           /\ outcome[v].item_id = outcome[w].item_id) => outcome[v].value = outcome[w].value

\* a call started after a call of the same identifier returned sends no
\* request and starts no other call: it is answered from the cache
AnsweredFromCache ==
    \A w \in Workers : \A k \in 1..Len(rstack[w]) :
        rstack[w][k].known => (rstack[w][k].phase = "enter" /\ k = Len(rstack[w]))

\* C11 as stated: equal results, no request by a resolution started after a
\* successful one, and a request for an identifier is sent again only by a
\* call that overlaps in time the calls that sent it before
C11_MemoizedUnderInterleaving ==
    /\ SingleValue
    /\ AnsweredFromCache
    /\ \A call \in AllCalls : call.sent => ~call.late

\* C11, amended: equal results, no request by a resolution started after a
\* successful one, and a request for an identifier is sent again only by a
\* call that overlaps in time the calls that sent it before, or after requests
\* that all failed (a response other than 200 is not cached); the caches hold
\* one value per identifier
C11_MemoizedSuccessesUnderInterleaving ==
    /\ SingleValue
    /\ AnsweredFromCache
    /\ \A call \in AllCalls :
          (call.sent /\ call.late) =>
              /\ api[call.item_id].status # 200
              /\ call.item_id \notin DOMAIN fetched
              /\ call.item_id \notin DOMAIN memo

\* both workers resolved the hilt at the same time: two requests were sent
\* for it, both returned the same recipe and the cache holds it
C11_Witness ==
    /\ \A w \in Workers :
          /\ outcome[w].item_id = "i_hilt"
          /\ outcome[w].status = "returned"
          /\ outcome[w].value = memo["i_hilt"]
    /\ requests["i_hilt"] = 2

(***************************************************************************)
(* Recipe cycles.  The remote dataset is not checked for cycles: the       *)
(* catalogs below also hold a rivet made of a hilt (a cycle when the hilt  *)
(* is made of a rivet) and a rivet made of itself.                         *)
(***************************************************************************)
CycleRivets == {RivetLines,
                <<[id |-> "i_hilt", quantity |-> 1]>>,
                <<[id |-> "i_wood", quantity |-> 1], [id |-> "i_rivet", quantity |-> 1]>>}

CyclicCatalog(rivet, hilt, sword, axe) ==
    [Catalog(hilt, sword, axe) EXCEPT
        !["i_rivet"] = RecipeData("Smith", rivet, IdsOf(rivet))]

\* the sword of the catalogs with cycles
CycleSword == <<[id |-> "i_hilt", quantity |-> 1], [id |-> "i_wood", quantity |-> MaxQty]>>

\* the axe of the catalogs with cycles
CycleAxe == <<[id |-> "i_wood", quantity |-> 1]>>

\* the faults of the catalogs with cycles: none, or one omission
CycleOmitted == {{}, {<<"i_sword", "i_wood">>}}

\* the has-recipe ingredients of the recipe of id: the identifiers for which
\* the loop of recipe_management calls recipe_management (lines 259-266)
Edges(catalog, id) ==
    {r.id : r \in {x \in catalog[id].ingredients :
                      /\ x.hasRecipe
                      /\ \E k \in 1..Len(catalog[id].ingredientIds) :
                            catalog[id].ingredientIds[k] = x.id}}

RECURSIVE Closure(_, _, _)
\* the identifiers reached from S in at most n calls
Closure(catalog, S, n) ==
    IF n = 0 THEN S
    ELSE Closure(catalog, S \cup UNION {Edges(catalog, x) : x \in S}, n - 1)

\* the identifiers recipe_management(id) may call recipe_management for
CalledFrom(catalog, id) == Closure(catalog, Edges(catalog, id), Cardinality(CraftIds))

\* a recipe cycle is reachable from id through has-recipe ingredients
CycleReachable(catalog, id) ==
    \E x \in {id} \cup CalledFrom(catalog, id) : x \in CalledFrom(catalog, x)

\* every request is answered 200 and every ingredient is listed
Sound(catalog) ==
    \A id \in CraftIds :
        /\ catalog[id].status = 200
        /\ \A k \in 1..Len(catalog[id].ingredientIds) :
              \E r \in catalog[id].ingredients : r.id = catalog[id].ingredientIds[k]

RECURSIVE FullyResolved(_)
\* every has-recipe ingredient of the tree carries its resolved recipe, every
\* other ingredient carries None
FullyResolved(recipe) ==
    \A k \in 1..Len(recipe.ingredients) :
        LET ingr == recipe.ingredients[k]
        IN  IF ingr.hasRecipe
            THEN ingr.recipe # None /\ FullyResolved(ingr.recipe)
            ELSE ingr.recipe = None

CycleInit ==
    /\ \E rivet \in CycleRivets, hilt \in HiltRecipes, omitted \in CycleOmitted :
          api = FaultyCatalog(CyclicCatalog(rivet, hilt, CycleSword, CycleAxe), {}, omitted)
    /\ AggOff
    /\ memo = EmptyDict
    /\ fetched = EmptyDict
    /\ requests = [id \in CraftIds |-> 0]
    /\ rstack = [w \in Workers |-> <<>>]
    /\ outcome = [w \in Workers |-> Idle]
    /\ over = {}
    /\ RunOff
    /\ EffectsOff

\* the steps of a call of recipe_management in progress in worker w
CallStep(w) ==
    \/ EnterCall(w)
    \/ FetchCall(w)
    \/ HttpResponse(w)
    \/ LoopNotFound(w)
    \/ LoopAppend(w)
    \/ LoopRecurse(w)
    \/ ReturnRecipe(w)

\* a thread that runs recipe_management keeps being scheduled, and a request
\* sent is answered
SpecCycle ==
    /\ CycleInit
    /\ [][ResolveNext]_vars
    /\ \A w \in Workers : WF_vars(CallStep(w))

\* C15 as stated: recipe_management(item) terminates exactly when no recipe
\* cycle is reachable from the item, so a call on an item that reaches a
\* cycle never ends
C15_EndsIffAcyclic ==
    \A w \in Workers :
        Ended(w) => ~CycleReachable(api, outcome[w].item_id)

\* C15: every call of recipe_management ends; it returns only for an item from
\* which no cycle is reachable, and then returns the tree of the catalog,
\* resolved down to the ingredients without recipe; on a sound catalog it
\* returns whenever no cycle is reachable; a call that reaches a cycle is
\* ended by RecursionError and nothing on the way to the cycle is memoized
C15_ReturnsIffAcyclic ==
    /\ [](\A w \in Workers :
            /\ outcome[w].status = "returned" =>
                  /\ ~CycleReachable(api, outcome[w].item_id)
                  /\ FullyResolved(outcome[w].value)
                  /\ Return(outcome[w].value) = recipe_management(api, outcome[w].item_id)
            /\ (outcome[w].status = "raised" /\ Sound(api)) =>
                  /\ CycleReachable(api, outcome[w].item_id)
                  /\ outcome[w].exc = "RecursionError"
            /\ outcome[w].exc = "RecursionError" => CycleReachable(api, outcome[w].item_id))
    /\ [](\A id \in DOMAIN memo : ~CycleReachable(api, id))
    /\ \A w \in Workers : (outcome[w].status = "running") ~> Ended(w)

\* a sword resolved on the acyclic catalog while the other worker's call on
\* the hilt, which requires the rivet which requires the hilt, was ended by
\* RecursionError with the hilt's recipe data in the cache of get_recipe_data
C15_Witness ==
    /\ Sound(api)
    /\ \E w \in Workers :
          /\ outcome[w].status = "raised"
          /\ outcome[w].exc = "RecursionError"
          /\ outcome[w].item_id = "i_hilt"
          /\ "i_hilt" \in DOMAIN fetched
          /\ "i_hilt" \notin DOMAIN memo
    /\ \E w \in Workers :
          /\ outcome[w].status = "returned"
          /\ outcome[w].item_id = "i_axe"
          /\ ~CycleReachable(api, "i_axe")

(***************************************************************************)
(* The extraction run: extract_management, try_all_jobs, job_management,   *)
(* category_management and item_management, one thread per job and per     *)
(* category.  An exception that leaves the target of a thread ends that    *)
(* thread only: Thread.join returns whether the target returned or raised. *)
(***************************************************************************)
\* x['name'].lower() compared as Python compares strings: the rank of the
\* lower-cased name in lexicographic order
LowerRank(name) ==
    CASE name = "Axe" -> 1 [] name = "Hilt" -> 2 [] name = "rivet" -> 3
      [] name = "Sword" -> 4 [] name = "Wood" -> 5

\* x['name'] compared as Python compares strings: capitals come first
RawRank(name) ==
    CASE name = "Axe" -> 1 [] name = "Hilt" -> 2 [] name = "Sword" -> 3
      [] name = "Wood" -> 4 [] name = "rivet" -> 5

\* sorted(tab, key=...): ascending and stable; keys[k] is the key of tab[k]
Sorted(tab, keys) ==
    LET before(k) == {l \in 1..Len(tab) :
                        \/ keys[l] < keys[k]
                        \/ (keys[l] = keys[k] /\ l < k)}
    IN  [p \in 1..Len(tab) |-> tab[CHOOSE k \in 1..Len(tab) : Cardinality(before(k)) = p - 1]]

group_items_by_level(items) ==
    [level \in {items[k].level : k \in 1..Len(items)} |->
        SelectSeq(items, LAMBDA item : item.level = level)]

\* a sort on the name as written
sort_items_by_name_raw(tab) == Sorted(tab, [k \in 1..Len(tab) |-> RawRank(tab[k].name)])

\* sort_items_by_name, line 52
sort_items_by_name(tab) == Sorted(tab, [k \in 1..Len(tab) |-> LowerRank(tab[k].name)])

sort_grouped_items_by_name(grouped_items) ==
    [level \in DOMAIN grouped_items |-> sort_items_by_name(grouped_items[level])]

\* sort_group_by_level: the levels of the dictionary in descending order
sort_group_by_level(grouped_items) ==
    LET levels == [k \in 1..Cardinality(DOMAIN grouped_items) |->
                      CHOOSE level \in DOMAIN grouped_items :
                          Cardinality({l \in DOMAIN grouped_items : l < level}) = k - 1]
    IN  Sorted(levels, [k \in 1..Len(levels) |-> 0 - levels[k]])

RECURSIVE flatten_from(_, _, _)
flatten_from(grouped_items, levels, k) ==
    IF k > Len(levels) THEN <<>>
    ELSE grouped_items[levels[k]] \o flatten_from(grouped_items, levels, k + 1)

\* line 353: the items of a job, by level descending then by name
flatten_items(items) ==
    LET grouped == sort_grouped_items_by_name(group_items_by_level(items))
    IN  flatten_from(grouped, sort_group_by_level(grouped), 1)

\* what a call of item_management leaves behind: how it ended, whether it
\* asked for the recipe, the item_data it appended and the caches
Handled(exc, how, resolved, item_data, cache, names) ==
    [exc |-> exc, how |-> how, resolved |-> resolved, append |-> item_data,
     cache |-> cache, named |-> names]

\* item_data of line 289
item_data_of(item, effects, recipe) ==
    [name |-> item.name, level |-> item.level, effects |-> effects,
     img |-> item.img, recipes |-> recipe]

\* an item_management that does not look at the number of effects
item_management_any_effects(api_, item, cache, names) ==
    IF item.hasRecipe /\ item.isDestructible /\ ~item.secretRecipe
    THEN LET effects == effects_management(item)
             got == recipe_management_cached(api_, item.id, cache)
         IN  IF effects.exc # "none"
             THEN Handled(effects.exc, "raised", FALSE, <<>>, cache, NamedAfter(item, names))
             ELSE IF got.exc # "none"
                  THEN Handled(got.exc, "raised", TRUE, <<>>, got.cache,
                               NamedAfter(item, names))
                  ELSE Handled("none", "added", TRUE,
                               <<item_data_of(item, effects.value, got.value)>>,
                               got.cache, NamedAfter(item, names))
    ELSE Handled("none", "skipped", FALSE, <<>>, cache, names)

\* item_management (lines 277-290)
item_management(api_, item, cache, names) ==
    IF item.hasRecipe /\ item.isDestructible /\ ~item.secretRecipe
    THEN LET effects == effects_management(item)
             got == recipe_management_cached(api_, item.id, cache)
         IN  IF effects.exc # "none"
             THEN Handled(effects.exc, "raised", FALSE, <<>>, cache, NamedAfter(item, names))
             ELSE IF Len(effects.value) = 0
                  THEN Handled("none", "skipped", FALSE, <<>>, cache,
                               NamedAfter(item, names))
                  ELSE IF got.exc # "none"
                       THEN Handled(got.exc, "raised", TRUE, <<>>, got.cache,
                                    NamedAfter(item, names))
                       ELSE Handled("none", "added", TRUE,
                                    <<item_data_of(item, effects.value, got.value)>>,
                                    got.cache, NamedAfter(item, names))
    ELSE Handled("none", "skipped", FALSE, <<>>, cache, names)

\* a thread whose target returned or raised: join returns
Terminated(pc_) == pc_ \in {"done", "failed"}

\* the page of a category at $skip, empty past the last one
PageAt(c, at) ==
    LET k == (at \div PageStep) + 1
    IN  IF k <= Len(items_api[c].pages) THEN items_api[c].pages[k] ELSE <<>>

resolverIdle == <<rstack, outcome, over>>

\* lines 97-102 of main.py: the branch on the selected job
ExtractStart ==
    /\ mpc = "extract"
    /\ IF ansj = "a"
       THEN /\ mpc' = "spawn_jobs"
            /\ UNCHANGED job_call
       ELSE /\ mpc' = "job"
            /\ job_call' = [job_call EXCEPT ![JobOfAnswer(ansj)] =
                               [pc |-> "start", k |-> 1, by |-> "main"]]
    /\ main_i' = 1
    /\ UNCHANGED <<api, aggVars, fxVars, memo, fetched, requests, resolverIdle, promptVars, lockVars, items_api,
                   ansj,
                   cat_thread, jobs_data, results, results_file, uncaught, named,
                   handled, resolved_for>>

\* try_all_jobs, lines 367-369: one thread per job
SpawnJob ==
    /\ mpc = "spawn_jobs"
    /\ job_call' = [job_call EXCEPT ![main_i] = [pc |-> "start", k |-> 1, by |-> "thread"]]
    /\ IF main_i < Len(jobs)
       THEN main_i' = main_i + 1 /\ UNCHANGED mpc
       ELSE main_i' = 1 /\ mpc' = "join_jobs"
    /\ UNCHANGED <<api, aggVars, fxVars, memo, fetched, requests, resolverIdle, promptVars, lockVars, items_api,
                   ansj,
                   cat_thread, jobs_data, results, results_file, uncaught, named,
                   handled, resolved_for>>

\* try_all_jobs, lines 370-371: stop_thread joins the job threads in order
JoinJob ==
    /\ mpc = "join_jobs"
    /\ Terminated(job_call[main_i].pc)
    /\ IF main_i < Len(jobs)
       THEN main_i' = main_i + 1 /\ UNCHANGED mpc
       ELSE main_i' = 1 /\ mpc' = "write"
    /\ UNCHANGED <<api, aggVars, fxVars, memo, fetched, requests, resolverIdle, promptVars, lockVars, items_api,
                   ansj,
                   job_call, cat_thread, jobs_data, results, results_file, uncaught,
                   named, handled, resolved_for>>

\* job_management, lines 333-339: JobNotFound ends the thread that runs the
\* call, or extract_management when the main thread runs it
JobStart(j) ==
    /\ job_call[j].pc = "start"
    /\ IF get_job_with_name(jobs[j].name) = 0
       THEN /\ job_call' = [job_call EXCEPT ![j].pc = "failed"]
            /\ IF job_call[j].by = "main"
               THEN mpc' = "crashed" /\ UNCHANGED uncaught
               ELSE uncaught' = uncaught \cup {<<jobs[j].name, "JobNotFound">>}
                    /\ UNCHANGED mpc
            /\ UNCHANGED jobs_data
       ELSE /\ job_call' = [job_call EXCEPT ![j].pc = "lock_check"]
            /\ jobs_data' = [jobs_data EXCEPT ![j] = <<>>]
            /\ UNCHANGED <<mpc, uncaught>>
    /\ UNCHANGED <<api, aggVars, fxVars, memo, fetched, requests, resolverIdle, promptVars, lockVars, items_api,
                   ansj,
                   main_i, cat_thread, results, results_file, named, handled,
                   resolved_for>>

\* get_print_lock, line 122: the test of the global print_lock
LockCheck(j) ==
    /\ job_call[j].pc = "lock_check"
    /\ job_call' = [job_call EXCEPT ![j].pc = IF print_lock = 0 THEN "lock_create"
                                              ELSE "lock_return"]
    /\ UNCHANGED <<api, aggVars, fxVars, resVars, lockVars, promptVars, items_api, ansj, mpc,
                   main_i, cat_thread, jobs_data, results, results_file, uncaught,
                   named, handled, resolved_for>>

\* get_print_lock, line 123: a new lock is made and stored in print_lock
LockCreate(j) ==
    /\ job_call[j].pc = "lock_create"
    /\ print_lock' = j
    /\ job_call' = [job_call EXCEPT ![j].pc = "lock_return"]
    /\ UNCHANGED <<api, aggVars, fxVars, resVars, taken, holder, promptVars, items_api, ansj,
                   mpc, main_i, cat_thread, jobs_data, results, results_file, uncaught,
                   named, handled, resolved_for>>

\* get_print_lock, line 124: the lock print_lock holds then is returned
LockReturn(j) ==
    /\ job_call[j].pc = "lock_return"
    /\ taken' = [taken EXCEPT ![j] = print_lock]
    /\ job_call' = [job_call EXCEPT ![j].pc = "acquire"]
    /\ UNCHANGED <<api, aggVars, fxVars, resVars, print_lock, holder, promptVars, items_api,
                   ansj, mpc, main_i, cat_thread, jobs_data, results, results_file,
                   uncaught, named, handled, resolved_for>>

\* job_management, line 343: with enters once the returned lock is free
LockAcquire(j) ==
    /\ job_call[j].pc = "acquire"
    /\ holder[taken[j]] = 0
    /\ holder' = [holder EXCEPT ![taken[j]] = j]
    /\ job_call' = [job_call EXCEPT ![j].pc = "print"]
    /\ UNCHANGED <<api, aggVars, fxVars, resVars, print_lock, taken, promptVars, items_api,
                   ansj, mpc, main_i, cat_thread, jobs_data, results, results_file,
                   uncaught, named, handled, resolved_for>>

\* job_management, lines 344-346: the lines of the job are printed and with
\* releases the lock
JobPrint(j) ==
    /\ job_call[j].pc = "print"
    /\ holder' = [holder EXCEPT ![taken[j]] = 0]
    /\ job_call' = [job_call EXCEPT ![j].pc = "spawn", ![j].k = 1]
    /\ UNCHANGED <<api, aggVars, fxVars, resVars, print_lock, taken, promptVars, items_api,
                   ansj, mpc, main_i, cat_thread, jobs_data, results, results_file,
                   uncaught, named, handled, resolved_for>>

\* job_management, lines 347-350: one thread per category
SpawnCategory(j) ==
    /\ job_call[j].pc = "spawn"
    /\ cat_thread' = [cat_thread EXCEPT ![jobs[j].category_id[job_call[j].k]] =
                         [NoCategory EXCEPT !.pc = "fetch"]]
    /\ job_call' = [job_call EXCEPT ![j] =
                       IF @.k < Len(jobs[j].category_id)
                       THEN [@ EXCEPT !.k = @ + 1]
                       ELSE [@ EXCEPT !.k = 1, !.pc = "join"]]
    /\ UNCHANGED <<api, aggVars, fxVars, memo, fetched, requests, resolverIdle, promptVars, lockVars, items_api,
                   ansj,
                   mpc, main_i, jobs_data, results, results_file, uncaught, named,
                   handled, resolved_for>>

\* a job_management that does not wait for its category threads
JoinCategory_no_wait(j) ==
    /\ job_call[j].pc = "join"
    /\ job_call' = [job_call EXCEPT ![j] =
                       IF @.k < Len(jobs[j].category_id)
                       THEN [@ EXCEPT !.k = @ + 1]
                       ELSE [@ EXCEPT !.k = 1, !.pc = "sort"]]
    /\ UNCHANGED <<api, aggVars, fxVars, memo, fetched, requests, resolverIdle, promptVars, lockVars, items_api,
                   ansj, mpc, main_i, cat_thread, jobs_data, results, results_file, uncaught,
                   named, handled, resolved_for>>

\* job_management, lines 351-352: stop_thread joins the category threads
JoinCategory(j) ==
    /\ job_call[j].pc = "join"
    /\ Terminated(cat_thread[jobs[j].category_id[job_call[j].k]].pc)
    /\ job_call' = [job_call EXCEPT ![j] =
                       IF @.k < Len(jobs[j].category_id)
                       THEN [@ EXCEPT !.k = @ + 1]
                       ELSE [@ EXCEPT !.k = 1, !.pc = "sort"]]
    /\ UNCHANGED <<api, aggVars, fxVars, memo, fetched, requests, resolverIdle, promptVars, lockVars, items_api,
                   ansj,
                   mpc, main_i, cat_thread, jobs_data, results, results_file, uncaught,
                   named, handled, resolved_for>>

\* job_management, lines 353-354: the items are sorted and the job record is
\* appended to results; the call returns
JobSort(j) ==
    /\ job_call[j].pc = "sort"
    /\ jobs_data' = [jobs_data EXCEPT ![j] = flatten_items(@)]
    /\ results' = Append(results, [name |-> jobs[j].name, items |-> flatten_items(jobs_data[j])])
    /\ job_call' = [job_call EXCEPT ![j].pc = "done"]
    /\ mpc' = IF job_call[j].by = "main" THEN "write" ELSE mpc
    /\ UNCHANGED <<api, aggVars, fxVars, memo, fetched, requests, resolverIdle, promptVars, lockVars, items_api,
                   ansj,
                   main_i, cat_thread, results_file, uncaught, named, handled,
                   resolved_for>>

\* category_management, lines 314-315 and 317: a page is asked; a response
\* other than 200 raises APIError, which ends the thread
FetchPage(c) ==
    /\ cat_thread[c].pc = "fetch"
    /\ \E status \in {200, 500} :
          IF status = 200
          THEN /\ cat_thread' = [cat_thread EXCEPT
                                    ![c].pc = "items",
                                    ![c].data = PageAt(c, cat_thread[c].skip),
                                    ![c].i = 1,
                                    ![c].total = IF cat_thread[c].skip = 0
                                                 THEN items_api[c].total ELSE @]
               /\ UNCHANGED uncaught
          ELSE /\ cat_thread' = [cat_thread EXCEPT ![c].pc = "failed"]
               /\ uncaught' = uncaught \cup {<<c, "APIError">>}
    /\ UNCHANGED <<api, aggVars, fxVars, memo, fetched, requests, resolverIdle, promptVars, lockVars, items_api,
                   ansj,
                   mpc, main_i, job_call, jobs_data, results, results_file, named,
                   handled, resolved_for>>

\* items_management, lines 300-301: item_management on the next item of the
\* page; an exception of effects_management or recipe_management ends the
\* thread
ItemStep(c) ==
    /\ cat_thread[c].pc = "items"
    /\ cat_thread[c].i <= Len(cat_thread[c].data)
    /\ LET item == cat_thread[c].data[cat_thread[c].i]
           h == item_management(api, item,
                    [memo |-> memo, fetched |-> fetched, requests |-> requests], named)
       IN  /\ jobs_data' = [jobs_data EXCEPT ![JobOfCategory(c)] = @ \o h.append]
           /\ memo' = h.cache.memo
           /\ fetched' = h.cache.fetched
           /\ requests' = h.cache.requests
           /\ named' = h.named
           /\ handled' = [handled EXCEPT ![item.id] = h.how]
           /\ resolved_for' = IF h.resolved THEN resolved_for \cup {item.id}
                              ELSE resolved_for
           /\ IF h.exc = "none"
              THEN /\ cat_thread' = [cat_thread EXCEPT ![c].i = @ + 1]
                   /\ UNCHANGED uncaught
              ELSE /\ cat_thread' = [cat_thread EXCEPT ![c].pc = "failed"]
                   /\ uncaught' = uncaught \cup {<<c, h.exc>>}
    /\ UNCHANGED <<api, aggVars, fxVars, resolverIdle, promptVars, lockVars, items_api,
                   ansj, mpc, main_i, job_call,
                   results, results_file>>

\* category_management, line 316: range(10, total+1, 10)
NextPage(c) ==
    /\ cat_thread[c].pc = "items"
    /\ cat_thread[c].i > Len(cat_thread[c].data)
    /\ cat_thread' = [cat_thread EXCEPT ![c] =
                         IF @.skip + PageStep <= @.total
                         THEN [@ EXCEPT !.pc = "fetch", !.skip = @ + PageStep]
                         ELSE [@ EXCEPT !.pc = "done"]]
    /\ UNCHANGED <<api, aggVars, fxVars, memo, fetched, requests, resolverIdle, promptVars, lockVars, items_api,
                   ansj,
                   mpc, main_i, job_call, jobs_data, results, results_file, uncaught,
                   named, handled, resolved_for>>

\* extract_management, line 105: json_writer writes results
WriteResults ==
    /\ mpc = "write"
    /\ results_file' = [written |-> TRUE, content |-> results]
    /\ mpc' = "done"
    /\ UNCHANGED <<api, aggVars, fxVars, memo, fetched, requests, resolverIdle, promptVars, lockVars, items_api,
                   ansj,
                   main_i, job_call, cat_thread, jobs_data, results, uncaught, named,
                   handled, resolved_for>>

\* the catalog of the runs
RunCatalog ==
    Catalog(<<[id |-> "i_rivet", quantity |-> 1]>>,
            <<[id |-> "i_hilt", quantity |-> 1], [id |-> "i_wood", quantity |-> MaxQty]>>,
            <<[id |-> "i_hilt", quantity |-> MaxQty]>>)

\* a run against the sound catalog with any record of the hilt, or against a
\* catalog with up to MaxRunFaults faults; the operator answered the prompts
RunInit ==
    /\ \E hilt \in HiltRecords, down \in SUBSET CraftIds, omitted \in SUBSET Omissions :
          /\ Cardinality(down) + Cardinality(omitted) <= MaxRunFaults
          /\ (down \cup omitted # {}) => hilt = PageItem("i_hilt", Craftable, Strength)
          /\ api = FaultyCatalog(RunCatalog, down, omitted)
          /\ items_api = ItemsApi(hilt)
    /\ ansj \in Answers
    /\ mpc = "extract"
    /\ RunIdle
    /\ Prompted
    /\ EffectsOff
    /\ AggOff
    /\ memo = EmptyDict
    /\ fetched = EmptyDict
    /\ requests = [id \in CraftIds |-> 0]
    /\ rstack = [w \in Workers |-> <<>>]
    /\ outcome = [w \in Workers |-> Idle]
    /\ over = {}

RunNext ==
    \/ ExtractStart
    \/ SpawnJob
    \/ JoinJob
    \/ WriteResults
    \/ \E j \in 1..Len(jobs) :
          \/ JobStart(j)
          \/ LockCheck(j)
          \/ LockCreate(j)
          \/ LockReturn(j)
          \/ LockAcquire(j)
          \/ JobPrint(j)
          \/ SpawnCategory(j)
          \/ JoinCategory(j)
          \/ JobSort(j)
    \/ \E c \in Categories :
          \/ FetchPage(c)
          \/ ItemStep(c)
          \/ NextPage(c)

SpecRun == RunInit /\ [][RunNext]_vars

(***************************************************************************)
(* The prompts of extract_management and the handler of main.              *)
(***************************************************************************)
\* what the operator may type at the overwrite and job-selection prompts
OverwriteInputs == {"y", "Y", "n", "q", "Q", "x", ""}

JobInputs == {"a", "A", "0", "1", "2", "q", "Q", "x"}

\* what the operator may type at a level prompt
LevelInputs == {"q", "Q", "abc", "-1", "0", "200", "201"}

\* str.lower
lower(text) ==
    CASE text = "Y" -> "y" [] text = "Q" -> "q" [] text = "A" -> "a" [] OTHER -> text

\* int(ans): the number, or ValueError
int(text) ==
    CASE text = "-1"  -> Return(0 - 1)
      [] text = "0"   -> Return(0)
      [] text = "200" -> Return(200)
      [] text = "201" -> Return(201)
      [] OTHER        -> Raise("ValueError")

\* a main that catches nothing
main_handler_none(exc) == "crashed"

\* main, lines 112-116: EndOfExecution is caught and main returns; any other
\* exception leaves main
main_handler(exc) == IF exc = "EndOfExecution" THEN "quit" ELSE "crashed"

\* prompt_level (lines 67-77) on one answer: the level, or the prompt is shown
\* again, or the exception
prompt_level(ans, min_value, max_value) ==
    IF ans = "q" THEN [exc |-> "EndOfExecution", again |-> FALSE, value |-> 0]
    ELSE IF int(ans).exc # "none" THEN [exc |-> "none", again |-> TRUE, value |-> 0]
    ELSE IF min_value <= int(ans).value /\ int(ans).value <= max_value
         THEN [exc |-> "none", again |-> FALSE, value |-> int(ans).value]
         ELSE [exc |-> "none", again |-> TRUE, value |-> 0]

\* prompt_overwrite_results, lines 20-27, and lines 91-92 of extract_management
PromptOverwrite ==
    /\ mpc = "overwrite"
    /\ IF ~existed
       THEN mpc' = "select" /\ UNCHANGED last
       ELSE \E typed \in OverwriteInputs :
               /\ last' = typed
               /\ mpc' = IF lower(typed) = "q" THEN main_handler("EndOfExecution")
                         ELSE IF lower(typed) = "y" THEN "select"
                         ELSE IF lower(typed) = "n" THEN "returned"
                         ELSE mpc
    /\ UNCHANGED <<api, aggVars, fxVars, resVars, lockVars, items_api, ansj, main_i, job_call, cat_thread,
                   jobs_data, results, results_file, uncaught, named, handled,
                   resolved_for, existed, level_min, level_max>>

\* prompt_job_selection, lines 40-51
PromptJob ==
    /\ mpc = "select"
    /\ \E typed \in JobInputs :
          /\ last' = typed
          /\ IF lower(typed) = "q"
             THEN mpc' = main_handler("EndOfExecution") /\ UNCHANGED ansj
             ELSE IF lower(typed) \in Answers
                  THEN mpc' = "level_min" /\ ansj' = lower(typed)
                  ELSE UNCHANGED <<mpc, ansj>>
    /\ UNCHANGED <<api, aggVars, fxVars, resVars, lockVars, items_api, main_i, job_call, cat_thread,
                   jobs_data, results, results_file, uncaught, named, handled,
                   resolved_for, existed, level_min, level_max>>

\* line 96: prompt_level for the minimum level
PromptLevelMin ==
    /\ mpc = "level_min"
    /\ \E typed \in LevelInputs :
          LET got == prompt_level(typed, MinLevel, MaxLevel)
          IN  /\ last' = typed
              /\ IF got.exc # "none"
                 THEN mpc' = main_handler(got.exc) /\ UNCHANGED level_min
                 ELSE IF got.again
                      THEN UNCHANGED <<mpc, level_min>>
                      ELSE mpc' = "level_max" /\ level_min' = got.value
    /\ UNCHANGED <<api, aggVars, fxVars, resVars, lockVars, items_api, ansj, main_i, job_call, cat_thread,
                   jobs_data, results, results_file, uncaught, named, handled,
                   resolved_for, existed, level_max>>

\* line 97: prompt_level for the maximum level
PromptLevelMax ==
    /\ mpc = "level_max"
    /\ \E typed \in LevelInputs :
          LET got == prompt_level(typed, level_min, MaxLevel)
          IN  /\ last' = typed
              /\ IF got.exc # "none"
                 THEN mpc' = main_handler(got.exc) /\ UNCHANGED level_max
                 ELSE IF got.again
                      THEN UNCHANGED <<mpc, level_max>>
                      ELSE mpc' = "extract" /\ level_max' = got.value
    /\ UNCHANGED <<api, aggVars, fxVars, resVars, lockVars, items_api, ansj, main_i, job_call, cat_thread,
                   jobs_data, results, results_file, uncaught, named, handled,
                   resolved_for, existed, level_min>>

\* extract_management is called: nothing is typed or selected yet
PromptInit ==
    /\ api = FaultyCatalog(RunCatalog, {}, {})
    /\ items_api = ItemsApi(PageItem("i_hilt", Craftable, Strength))
    /\ existed \in BOOLEAN
    /\ ansj = ""
    /\ level_min = MinLevel
    /\ level_max = MinLevel
    /\ last = ""
    /\ mpc = "overwrite"
    /\ RunIdle
    /\ EffectsOff
    /\ AggOff
    /\ memo = EmptyDict
    /\ fetched = EmptyDict
    /\ requests = [id \in CraftIds |-> 0]
    /\ rstack = [w \in Workers |-> <<>>]
    /\ outcome = [w \in Workers |-> Idle]
    /\ over = {}

PromptNext ==
    \/ PromptOverwrite
    \/ PromptJob
    \/ PromptLevelMin
    \/ PromptLevelMax
    \/ RunNext

SpecPrompt == PromptInit /\ [][PromptNext]_vars

(***************************************************************************)
(* Properties of the extraction run.                                       *)
(***************************************************************************)
\* the records of the pages of category c
RecordsOf(c) ==
    UNION {{items_api[c].pages[k][i] : i \in 1..Len(items_api[c].pages[k])} :
              k \in 1..Len(items_api[c].pages)}

\* the category that lists item id, and the record it lists
CategoryOf(id) == CHOOSE c \in Categories : \E r \in RecordsOf(c) : r.id = id

RecordOf(id) == CHOOSE r \in RecordsOf(CategoryOf(id)) : r.id = id

\* the positions of item id in the item list of its job
PlacesOf(id) ==
    {k \in 1..Len(jobs_data[JobOfCategory(CategoryOf(id))]) :
        jobs_data[JobOfCategory(CategoryOf(id))][k].name = RecordOf(id).name}

InList(id) == PlacesOf(id) # {}

FlagsPass(item) == item.hasRecipe /\ item.isDestructible /\ ~item.secretRecipe

\* some effect of the item, taken alone, is kept by effects_management
HasRecognizedEffect(item) ==
    \E k \in 1..Len(item.effects) :
        LET alone == effects_loop(<<item.effects[k]>>, 1, <<>>)
        IN  alone.exc = "none" /\ Len(alone.value) > 0

\* C4: once a worker has failed, the results file is not written and the run
\* does not end as a successful one
C4_WorkerFailureEndsRun ==
    uncaught # {} => (~results_file.written /\ mpc # "done")

\* C9 as stated: an item whose item_management call is over is in the item
\* list exactly when its flags pass and it has a recognized effect, and no
\* recipe was asked for an item that is not in the list
C9_AddedIffCraftable ==
    \A id \in PageItems :
        handled[id] # "none" =>
            /\ InList(id) <=> (FlagsPass(RecordOf(id)) /\ HasRecognizedEffect(RecordOf(id)))
            /\ ~InList(id) => id \notin resolved_for

\* C9, amended: an item whose item_management call is over is in the item
\* list (once, as the item_data of its effects and resolved recipe) exactly
\* when its flags pass, effects_management returns at least one effect and
\* recipe_management returns; when either raises, the call raises and adds
\* nothing; the recipe is asked for exactly when the flags pass and
\* effects_management returns at least one effect, so never for an item with
\* zero recognized effects
C9_AddedIffCraftableAndResolved ==
    \A id \in PageItems :
        handled[id] # "none" =>
            LET item == RecordOf(id)
                effects == effects_management(item)
                recipe == recipe_management(api, id)
                some == effects.exc = "none" /\ Len(effects.value) > 0
            IN  /\ InList(id) <=> (FlagsPass(item) /\ some /\ recipe.exc = "none")
                /\ InList(id) <=> handled[id] = "added"
                /\ InList(id) =>
                      /\ Cardinality(PlacesOf(id)) = 1
                      /\ \A k \in PlacesOf(id) :
                            jobs_data[JobOfCategory(CategoryOf(id))][k] =
                                item_data_of(item, effects.value, recipe.value)
                /\ (effects.exc = "none" /\ Len(effects.value) = 0) => ~InList(id)
                /\ id \in resolved_for <=> (FlagsPass(item) /\ some)
                /\ handled[id] = "raised" <=>
                      (FlagsPass(item) /\ (effects.exc # "none" \/ (some /\ recipe.exc # "none")))
                /\ handled[id] = "raised" =>
                      /\ cat_thread[CategoryOf(id)].pc = "failed"
                      /\ \E kind \in {effects.exc, recipe.exc} \ {"none"} :
                            <<CategoryOf(id), kind>> \in uncaught

\* the sword was added with its resolved recipe, and the hilt, craftable by
\* its flags and with raw effects none of which is recognized, was skipped
\* without its recipe being asked
C9_Witness ==
    /\ handled["i_sword"] = "added"
    /\ InList("i_sword")
    /\ handled["i_hilt"] = "skipped"
    /\ FlagsPass(RecordOf("i_hilt"))
    /\ RecordOf("i_hilt").effects # <<>>
    /\ ~InList("i_hilt")
    /\ "i_hilt" \notin resolved_for

\* the categories of job j
CategoriesOf(j) == {jobs[j].category_id[k] : k \in 1..Len(jobs[j].category_id)}

\* the jobs whose job_management call was started
StartedJobs == {j \in 1..Len(jobs) : job_call[j].pc # "idle"}

\* no thread is running: each was never started or has terminated
NoThreadRuns ==
    /\ \A c \in Categories : cat_thread[c].pc \in {"idle", "done", "failed"}
    /\ \A j \in 1..Len(jobs) : job_call[j].pc \in {"idle", "done", "failed"}

\* C13: job_management sorts and appends its record only once every category
\* thread it started has terminated; try_all_jobs returns only once every job
\* thread has terminated; so when the results are written no thread runs, every
\* record is in results and nothing is appended afterwards
C13_JoinedBeforeWrite ==
    /\ \A j \in 1..Len(jobs) :
          /\ job_call[j].pc \in {"sort", "done"} =>
                \A c \in CategoriesOf(j) : Terminated(cat_thread[c].pc)
          /\ (\E k \in 1..Len(results) : results[k].name = jobs[j].name) <=>
                job_call[j].pc = "done"
    /\ mpc \in {"write", "done"} =>
          /\ NoThreadRuns
          /\ StartedJobs # {}
          /\ ansj = "a" => StartedJobs = 1..Len(jobs)
          /\ \A j \in StartedJobs : \A c \in CategoriesOf(j) : Terminated(cat_thread[c].pc)
          /\ ~ENABLED (\E c \in Categories : ItemStep(c))
    /\ results_file.written =>
          /\ mpc = "done"
          /\ results_file.content = results
          /\ ~ENABLED RunNext

\* all jobs were extracted without failure: both records, with the items of
\* the three categories, were written after the five threads ended
C13_Witness ==
    /\ ansj = "a"
    /\ results_file.written
    /\ uncaught = {}
    /\ Len(results_file.content) = Len(jobs)
    /\ \A c \in Categories : cat_thread[c].pc = "done"
    /\ \A id \in PageItems : handled[id] = "added"

\* the jobs whose job_management call is inside the section guarded by the lock
Printing == {j \in 1..Len(jobs) : job_call[j].pc = "print"}

\* C14: every job worker gets the same lock from get_print_lock, and at most
\* one of them at a time is inside the console-output section
C14_OneLockOnePrinter ==
    /\ \A i, j \in 1..Len(jobs) : (taken[i] # 0 /\ taken[j] # 0) => taken[i] = taken[j]
    /\ Cardinality(Printing) <= 1

\* the number of times x is in the list
CountIn(list, x) == Cardinality({k \in 1..Len(list) : list[k] = x})

\* the two lists hold the same items, each as many times
SameItems(a, b) ==
    /\ Len(a) = Len(b)
    /\ \A k \in 1..Len(a) : CountIn(a, a[k]) = CountIn(b, a[k])

\* by level descending and, at equal level, by lower-cased name ascending
LevelThenName(items) ==
    \A k, l \in 1..Len(items) :
        k < l => \/ items[k].level > items[l].level
                 \/ /\ items[k].level = items[l].level
                    /\ LowerRank(items[k].name) <= LowerRank(items[l].name)

\* the page items of job j that its category threads appended to jobs_data
AddedOf(j) ==
    {id \in PageItems : handled[id] = "added" /\ JobOfCategory(CategoryOf(id)) = j}

\* the index of the job a record of results is named after
JobNamed(name) == CHOOSE j \in 1..Len(jobs) : jobs[j].name = name

\* each record of results holds every item its job's threads added, once
RecordsHoldAdded ==
    \A r \in 1..Len(results) :
        LET j == JobNamed(results[r].name)
        IN  /\ Len(results[r].items) = Cardinality(AddedOf(j))
            /\ \A id \in AddedOf(j) :
                  Cardinality({k \in 1..Len(results[r].items) :
                                  results[r].items[k].name = RecordOf(id).name}) = 1
            /\ LevelThenName(results[r].items)

\* line 353-354 of job j: the record appended holds the items of jobs_data
SortKeepsItems ==
    \A j \in 1..Len(jobs) :
        (job_call[j].pc = "sort" /\ job_call'[j].pc = "done") =>
            /\ Len(results') = Len(results) + 1
            /\ SubSeq(results', 1, Len(results)) = results
            /\ results'[Len(results')].name = jobs[j].name
            /\ SameItems(results'[Len(results')].items, jobs_data[j])
            /\ LevelThenName(results'[Len(results')].items)

\* C18: the item list of each job record appended to results is a
\* permutation of the items collected by the job's category threads, none
\* lost and none duplicated, ordered by level descending and, among items of
\* equal level, by lower-cased name ascending
C18_SortedPermutation ==
    /\ []RecordsHoldAdded
    /\ [][SortKeepsItems]_vars

\* the Smith's record: the rivet and the sword have the same level and the
\* rivet, written in small letters, comes first; the hilt, of lower level, last
C18_Witness ==
    \E r \in 1..Len(results) :
        /\ results[r].name = "Smith"
        /\ Len(results[r].items) = Cardinality(AddedOf(1))
        /\ [k \in 1..Len(results[r].items) |-> results[r].items[k].name]
               = <<"rivet", "Sword", "Hilt">>
        /\ results[r].items[1].level = results[r].items[2].level

(***************************************************************************)
(* Properties of the prompts.                                              *)
(***************************************************************************)
PromptStates == {"overwrite", "select", "level_min", "level_max"}

\* the prompt at which the main thread stands reads an answer
ReadsAnswer == mpc \in PromptStates /\ (mpc = "overwrite" => existed)

\* the answers a prompt accepts, q included
Accepted(prompt, typed) ==
    CASE prompt = "overwrite" -> lower(typed) \in {"y", "n", "q"}
      [] prompt = "select"    -> lower(typed) \in Answers \cup {"q"}
      [] prompt = "level_min" ->
            typed = "q" \/ (int(typed).exc = "none" /\ MinLevel <= int(typed).value
                                                    /\ int(typed).value <= MaxLevel)
      [] prompt = "level_max" ->
            typed = "q" \/ (int(typed).exc = "none" /\ level_min <= int(typed).value
                                                    /\ int(typed).value <= MaxLevel)

\* no request was sent, no thread was started and nothing was written
NothingDone ==
    /\ \A id \in CraftIds : requests[id] = 0
    /\ named = {}
    /\ \A c \in Categories : cat_thread[c].pc = "idle"
    /\ \A j \in 1..Len(jobs) : job_call[j].pc = "idle"
    /\ results = <<>>
    /\ ~results_file.written
    /\ uncaught = {}

\* the run ended through the handler of main: nothing was or will be done
QuitIsFinal == mpc = "quit" => (NothingDone /\ ~ENABLED PromptNext)

\* q typed at a prompt takes the main thread to the handler of main
QuitStep == (ReadsAnswer /\ last' = "q") => (mpc' = "quit" /\ NothingDone')

\* an answer the prompt does not accept changes nothing but the answer read
InvalidStep ==
    (ReadsAnswer /\ last' # last /\ ~Accepted(mpc, last')) =>
        /\ mpc' = mpc
        /\ UNCHANGED <<api, aggVars, fxVars, resVars, lockVars, items_api, ansj, main_i, job_call,
                       cat_thread, jobs_data, results, results_file, uncaught, named,
                       handled, resolved_for, existed, level_min, level_max>>

\* C12: q at the overwrite, job-selection, minimum-level or maximum-level
\* prompt ends the run through the handler of main, without an uncaught
\* exception; no request is sent and the results file is not written from
\* then on; an answer a prompt does not accept only has the prompt shown again
C12_QuitEndsCleanly ==
    /\ [](QuitIsFinal /\ mpc # "crashed")
    /\ [][QuitStep /\ InvalidStep]_vars

\* the operator chose to overwrite, selected all jobs and a minimum level,
\* then typed q at the maximum-level prompt
C12_Witness ==
    /\ mpc = "quit"
    /\ existed
    /\ ansj = "a"
    /\ level_min = MaxLevel
    /\ last = "q"

(***************************************************************************)
(* effects_management on its own, on the effects lists of up to MaxEffects *)
(* raw effects: any low bound around 0, a high bound that is 0 or not.     *)
(***************************************************************************)
RawEffects ==
    {Effect(e, low, high) : e \in {"e_force", "e_fire", "e_hunt"},
                            low \in -1..1, high \in {0, MaxQty}}
    \cup {Effect("e_title", 1, MaxQty), Effect("e_down", 1, MaxQty)}

EffectsInit ==
    /\ fx_pc = "call"
    /\ fx_item \in [effects : SeqsUpTo(RawEffects, MaxEffects)]
    /\ fx_result = Return(<<>>)
    /\ api = FaultyCatalog(RunCatalog, {}, {})
    /\ RunOff
    /\ AggOff
    /\ memo = EmptyDict
    /\ fetched = EmptyDict
    /\ requests = [id \in CraftIds |-> 0]
    /\ rstack = [w \in Workers |-> <<>>]
    /\ outcome = [w \in Workers |-> Idle]
    /\ over = {}

\* effects_management(item), lines 183-205
EffectsCall ==
    /\ fx_pc = "call"
    /\ fx_result' = effects_management(fx_item)
    /\ named' = NamedAfter(fx_item, named)
    /\ fx_pc' = "done"
    /\ UNCHANGED <<api, aggVars, resVars, fx_item, promptVars, lockVars, items_api, ansj,
                   mpc, main_i, job_call, cat_thread, jobs_data, results, results_file,
                   uncaught, handled, resolved_for>>

EffectsNext == EffectsCall

SpecEffects == EffectsInit /\ [][EffectsNext]_vars

\* the cleaned name of a raw effect whose name request succeeds
CleanedName(effect) == clean_effect_name(EffectsApi[effect.effectId].description)

\* every name request of the list is answered 200
AllNamed(effects) ==
    \A k \in 1..Len(effects) : EffectsApi[effects[k].effectId].status = 200

HuntingWeapon(effect) == CleanedName(effect) = <<"Arme de chasse">>

\* the record of a kept effect: (1,1) for the hunting weapon, else the raw
\* values with a high bound of 0 replaced by the low bound
KeptRecord(effect) ==
    [name |-> CleanedName(effect),
     value1 |-> IF HuntingWeapon(effect) THEN 1 ELSE effect.from,
     value2 |-> IF HuntingWeapon(effect) THEN 1
                ELSE IF effect.to = 0 THEN effect.from ELSE effect.to]

\* the records of the effects of the list that satisfy keep, in input order
RecordsKept(effects, keep) ==
    LET kept == SelectSeq([k \in 1..Len(effects) |-> k], LAMBDA k : k \in keep)
    IN  [p \in 1..Len(kept) |-> KeptRecord(effects[kept[p]])]

\* kept as stated: a raw low bound that is not negative, an accepted name
StatedKept(effects) ==
    {k \in 1..Len(effects) : /\ effects[k].from >= 0
                             /\ CleanedName(effects[k]) \in effects_name}

\* kept: an accepted name, and either the hunting weapon or a raw low bound
\* that is not negative with raw values that are not both 0
ActuallyKept(effects) ==
    {k \in 1..Len(effects) :
        /\ CleanedName(effects[k]) \in effects_name
        /\ \/ HuntingWeapon(effects[k])
           \/ /\ effects[k].from >= 0
              /\ ~(effects[k].from = 0 /\ effects[k].to = 0)}

\* C17 as stated: effects_management returns, in input order, exactly the raw
\* effects whose low bound is not negative and whose cleaned name is accepted,
\* the high bound replaced by the low one when it is 0, the hunting weapon
\* given (1,1)
C17_KeepsNonNegativeAccepted ==
    (fx_pc = "done" /\ AllNamed(fx_item.effects)) =>
        fx_result = Return(RecordsKept(fx_item.effects, StatedKept(fx_item.effects)))

\* C17: effects_management returns, in input order, exactly the effects whose
\* cleaned name is accepted and that are either the hunting weapon, whatever
\* its raw values, or have a raw low bound that is not negative and raw values
\* that are not both 0; a kept effect has its high bound replaced by the low
\* one when it is 0, the hunting weapon has (1,1); a name request that fails
\* makes the call raise APIError instead
C17_KeepsAcceptedNonNull ==
    fx_pc = "done" =>
        IF AllNamed(fx_item.effects)
        THEN fx_result = Return(RecordsKept(fx_item.effects, ActuallyKept(fx_item.effects)))
        ELSE fx_result.exc = "APIError"

\* a null strength is dropped, a hunting weapon of negative raw low bound is
\* kept as (1,1), single-valued fire damage gets its low bound as high bound
C17_Witness ==
    /\ fx_pc = "done"
    /\ fx_item.effects = <<Effect("e_force", 0, 0), Effect("e_hunt", -1, MaxQty),
                           Effect("e_fire", 1, 0)>>
    /\ fx_result = Return(<<[name |-> <<"Arme de chasse">>, value1 |-> 1, value2 |-> 1],
                            [name |-> <<"Dommages", " ", "Feu">>, value1 |-> 1,
                             value2 |-> 1]>>)

=============================================================================
